---- MODULE Spec2Model ----
(***************************************************************************)
(* Contact address-book service (FastAPI): the contacts table, the contact *)
(* repository, the contacts and users routes with their dependencies, and  *)
(* the requests suspended between two awaits of a handler.                 *)
(***************************************************************************)
EXTENDS Integers, Sequences, FiniteSets, Bags, TLC

\* ------------------------------------------------------------------ bounds
\* Primary keys handed out by the contacts table: 1..MaxId.
MaxId == 2
\* Requests that may be suspended at an await between their first query and
\* their commit at the same time.
MaxInflight == 2
\* Seconds on the clock that stamps the issued tokens: 0..MaxClock.
MaxClock == 2
\* Requests that hold a session or a cache client over the run.
MaxRequests == 2
\* Seconds a key written by the cache healthcheck lives.
HealthcheckExpiry == 5
\* Seconds between two instants at which the model looks at the rate
\* limiter's keys.
TickSeconds == 10

\* ------------------------------------------------------- program constants
\* Query(default=10, ge=1, le=500) / Query(default=0, ge=0)
LimitMin == 1
LimitMax == 500
OffsetMin == 0
\* Field(min_length=3, max_length=50), Field(max_length=250)
NameMinLen == 3
NameMaxLen == 50
AdditionalDataMaxLen == 250
\* UserSchema: Field(min_length=3, max_length=50), Field(min_length=6,
\* max_length=10)
UsernameMinLen == 3
UsernameMaxLen == 50
PasswordMinLen == 6
PasswordMaxLen == 10
\* RateLimiter(times=2, seconds=60)
RateTimes == 2
\* RateLimiter(times=2, seconds=60), RateLimiter(times=2, seconds=10)
ContactsRateSeconds == 60
ProfileRateSeconds == 10
\* timedelta(days=7)
BirthdayWindowDays == 7

\* Python's None
None == [none |-> TRUE]

\* ------------------------------------------------------------------- dates
\* datetime.date: a full calendar date; comparison is chronological.
IsLeap(y) == (y % 4 = 0 /\ y % 100 # 0) \/ y % 400 = 0

DaysInMonth(y, m) ==
    IF m = 2 THEN (IF IsLeap(y) THEN 29 ELSE 28)
    ELSE IF m \in {4, 6, 9, 11} THEN 30 ELSE 31

NextDay(d) ==
    IF d.day < DaysInMonth(d.year, d.month)
        THEN [d EXCEPT !.day = d.day + 1]
    ELSE IF d.month < 12
        THEN [year |-> d.year, month |-> d.month + 1, day |-> 1]
    ELSE [year |-> d.year + 1, month |-> 1, day |-> 1]

RECURSIVE AddDays(_, _)
\* date + timedelta(days=n)
AddDays(d, n) == IF n = 0 THEN d ELSE AddDays(NextDay(d), n - 1)

\* a <= b on dates
DateLE(a, b) ==
    \/ a.year < b.year
    \/ a.year = b.year /\ a.month < b.month
    \/ a.year = b.year /\ a.month = b.month /\ a.day <= b.day

\* Variant: a window that leaves out its last day.
Between_without_last_day(d, lo, hi) == DateLE(lo, d) /\ ~DateLE(hi, d)

\* Contact.birthday.between(lo, hi): lo <= birthday <= hi, both ends included
Between(d, lo, hi) == DateLE(lo, d) /\ DateLE(d, hi)

Date(y, m, d) == [year |-> y, month |-> m, day |-> d]

\* The 'YYYY-MM-DD' strings of the model and the dates they denote.
DateStrings ==
    {"2027-01-03", "1990-01-02", "2026-12-29"}

\* The date a 'YYYY-MM-DD' string denotes.
DateOfString(s) ==
    CASE s = "2027-01-03" -> Date(2027, 1, 3)
      [] s = "1990-01-02" -> Date(1990, 1, 2)
      [] s = "2026-12-29" -> Date(2026, 12, 29)

\* ------------------------------------------------------------------- users
\* Rows of the users table (entity User); the columns the routes read.
User1 == [id |-> 1, username |-> "ann", email |-> "ann@mail.io"]
User2 == [id |-> 2, username |-> "bob", email |-> "bob@mail.io"]
\* users.username carries no unique constraint and signup refuses a taken
\* email only: a third account under the first one's username.
User3 == [id |-> 3, username |-> "ann", email |-> "ann@work.io"]
RegisteredUsers == {User1, User2, User3}
UserIds == {u.id : u \in RegisteredUsers}

\* ------------------------------------------------------------ bearer tokens
\* The Authorization header of a request: NoToken when it is missing, else a
\* token with its signature/expiry verdict, its purpose tag and its subject.
NoToken == [present |-> FALSE, valid |-> FALSE, scope |-> "", sub |-> ""]
Token(valid, scope, sub) ==
    [present |-> TRUE, valid |-> valid, scope |-> scope, sub |-> sub]
AccessToken(u) == Token(TRUE, "access_token", u.email)
GoodTokens == {AccessToken(u) : u \in {User1, User2}}
BadTokens ==
    { NoToken,
      Token(FALSE, "access_token", User1.email),
      Token(TRUE, "refresh_token", User1.email),
      Token(TRUE, "access_token", "ghost@mail.io") }

\* The failure of current-user resolution (HTTPException 401).
Unauthorized == [unauthorized |-> TRUE]

\* auth_service.get_current_user: the user a bearer token resolves to, or
\* Unauthorized (HTTP 401) when the token is missing, does not verify, is not
\* an access token, or names no user.
get_current_user(token) ==
    IF ~token.present \/ ~token.valid \/ token.scope # "access_token"
        THEN Unauthorized
    ELSE IF \E u \in RegisteredUsers : u.email = token.sub
        THEN CHOOSE u \in RegisteredUsers : u.email = token.sub
    ELSE Unauthorized

\* ---------------------------------------------------------- request bodies
\* An e-mail address as EmailStr reads it: local part and domain.
Email(local, domain) == [local |-> local, domain |-> domain]
\* EmailStr
IsEmail(e) == Len(e.local) > 0 /\ Len(e.domain) > 0

EmailAnn == Email("ann", "x.io")
EmailBob == Email("bob", "x.io")

\* datetime.now().date() as read by the requests of the model
Nows == {Date(2026, 12, 24), Date(2026, 12, 27), Date(2026, 12, 29)}

Body(fn, ln, em, bd, ad) ==
    [first_name |-> fn, last_name |-> ln, email |-> em, birthday |-> bd,
     additional_data |-> ad]

\* The JSON bodies sent to create and update.
Bodies ==
    { Body("Ann", "Lee", EmailAnn, Date(2027, 1, 3), ""),
      Body("Bob", "Lee", EmailBob, Date(2026, 12, 29), "vip"),
      Body("Bob", "Roe", EmailAnn, Date(1990, 1, 2), "") }

\* ContactSchema: first_name, last_name 3..50, EmailStr, additional_data <= 250
ContactSchema(body) ==
    /\ Len(body.first_name) >= NameMinLen /\ Len(body.first_name) <= NameMaxLen
    /\ Len(body.last_name) >= NameMinLen /\ Len(body.last_name) <= NameMaxLen
    /\ IsEmail(body.email)
    /\ Len(body.additional_data) <= AdditionalDataMaxLen

\* ContactUpdateSchema redeclares every field without its Field(...) limits:
\* only the types are left, of which EmailStr still validates.
ContactUpdateSchema(body) == IsEmail(body.email)

\* ---------------------------------------------------------- contacts table
\* A row of the contacts table (entity Contact).
Row(id, body, user_id) ==
    [id |-> id, first_name |-> body.first_name, last_name |-> body.last_name,
     email |-> body.email, birthday |-> body.birthday,
     additional_data |-> body.additional_data, user_id |-> user_id]

Range(seq) == {seq[i] : i \in 1..Len(seq)}

\* What a repository call hands back: a value, or a raised HTTPException.
Return(v) == [raised |-> FALSE, status_code |-> 200, detail |-> "", value |-> v]
HTTPException(code, detail) ==
    [raised |-> TRUE, status_code |-> code, detail |-> detail, value |-> None]

\* result.scalar_one_or_none()
scalar_one_or_none(rows) ==
    IF Len(rows) = 0 THEN None
    ELSE IF Len(rows) = 1 THEN rows[1]
    ELSE [multiple_results_found |-> TRUE]

\* result.fetchone()
fetchone(rows) == IF Len(rows) = 0 THEN None ELSE rows[1]

\* .offset(offset).limit(limit) on a result
OffsetLimit(rows, offset, limit) ==
    SubSeq(rows, offset + 1,
           IF offset + limit < Len(rows) THEN offset + limit ELSE Len(rows))

\* ----------------------------------------------- repository/contacts.py
\* Every operator reads `rows`, the contacts table in the order in which the
\* storage scans it (no statement of the repository has an ORDER BY).

\* get_contacts: select(Contact).filter_by(user=user).offset(offset).limit(limit)
repo_get_contacts(rows, limit, offset, user) ==
    LET Mine(c) == c.user_id = user.id
    IN  OffsetLimit(SelectSeq(rows, Mine), offset, limit)

\* get_contact: select(Contact).filter_by(id=contact_id, user=user)
repo_get_contact(rows, contact_id, user) ==
    LET Hit(c) == c.id = contact_id /\ c.user_id = user.id
    IN  scalar_one_or_none(SelectSeq(rows, Hit))

\* Variant: a create without its existence check.
create_contact_existing_skipped(rows, body, user) == None

\* create_contact, the existence check: filter_by(first_name, last_name, email)
create_contact_existing(rows, body, user) ==
    LET Same(c) == /\ c.first_name = body.first_name
                   /\ c.last_name = body.last_name
                   /\ c.email = body.email
    IN  fetchone(SelectSeq(rows, Same))

\* delete_contact: select(Contact).filter_by(id=contact_id, user=user)
delete_contact_select(rows, contact_id, user) ==
    LET Hit(c) == c.id = contact_id /\ c.user_id = user.id
    IN  scalar_one_or_none(SelectSeq(rows, Hit))

\* Variant: the select of update_contact by id alone, without the owner.
update_contact_select_any_owner(rows, contact_id, user) ==
    LET Hit(c) == c.id = contact_id
    IN  scalar_one_or_none(SelectSeq(rows, Hit))

\* update_contact: select(Contact).filter_by(id=contact_id, user=user)
update_contact_select(rows, contact_id, user) ==
    LET Hit(c) == c.id = contact_id /\ c.user_id = user.id
    IN  scalar_one_or_none(SelectSeq(rows, Hit))

\* get_contact_by_email: filter_by(email=contact_email, user=user)
repo_get_contact_by_email(rows, contact_email, user) ==
    LET Hit(c) == c.email = contact_email /\ c.user_id = user.id
        contact == scalar_one_or_none(SelectSeq(rows, Hit))
    IN  IF contact = None
            THEN HTTPException(404, "Contact is not found")
        ELSE Return(contact)

\* get_contact_by_last_name: filter_by(last_name=contact_last_name, user=user)
repo_get_contact_by_last_name(rows, contact_last_name, user) ==
    LET Hit(c) == c.last_name = contact_last_name /\ c.user_id = user.id
        found == SelectSeq(rows, Hit)
    IN  IF found = << >> THEN HTTPException(404, "Contacts not found")
        ELSE Return(found)

\* get_contact_by_birthday: filter_by(birthday=contact_birthday, user=user)
repo_get_contact_by_birthday(rows, contact_birthday, user) ==
    LET Hit(c) == c.birthday = contact_birthday /\ c.user_id = user.id
        found == SelectSeq(rows, Hit)
    IN  IF found = << >> THEN HTTPException(404, "Contacts not found")
        ELSE Return(found)

\* get_birthdays: birthday.between(now.date(), (now + 7 days).date()) and
\* Contact.user_id == user.id
repo_get_birthdays(rows, now, user) ==
    LET end_date == AddDays(now, BirthdayWindowDays)
        Hit(c) == Between(c.birthday, now, end_date) /\ c.user_id = user.id
    IN  SelectSeq(rows, Hit)

\* Variant: a table without the unique constraint on email.
EmailTaken_never(rows, email, own_id) == FALSE

\* ------------------------------------------------------ storage, on commit
\* Contact.email is declared unique=True: the storage refuses a row whose
\* email another row holds (IntegrityError).
EmailTaken(rows, email, own_id) ==
    \E i \in 1..Len(rows) : rows[i].email = email /\ rows[i].id # own_id

HasId(rows, id) == \E i \in 1..Len(rows) : rows[i].id = id

IndexOfId(rows, id) == CHOOSE i \in 1..Len(rows) : rows[i].id = id

\* db.refresh(contact): the row read back by primary key
Refresh(rows, id) == rows[IndexOfId(rows, id)]

\* INSERT INTO contacts: the new row goes to the end of the table.
InsertRow(rows, row) == Append(rows, row)

\* Variant: a DELETE that is never committed.
DeleteRow_uncommitted(rows, id) == rows

\* DELETE FROM contacts WHERE id = :id
DeleteRow(rows, id) ==
    LET Keep(c) == c.id # id IN SelectSeq(rows, Keep)

\* The attributes of a contact that a request's body carries.
Fields == {"first_name", "last_name", "email", "birthday", "additional_data"}

\* setattr(contact, key, value) over body.model_dump(): the attributes whose
\* value is no longer the one the select loaded. The session's UPDATE sets
\* these and no other column.
Changed(contact, body) == {f \in Fields : body[f] # contact[f]}

\* Variant: an UPDATE that leaves additional_data as it was.
UpdateRow_keeps_additional_data(rows, contact, body, moved) ==
    LET i == IndexOfId(rows, contact.id)
        set == Changed(contact, body) \ {"additional_data"}
    IN  [rows EXCEPT ![i] =
            [f \in DOMAIN rows[i] |-> IF f \in set THEN body[f] ELSE rows[i][f]]]

\* UPDATE contacts SET <changed attributes> WHERE id = :id, for the object
\* `contact` that the select loaded: the row that has the id now is given the
\* changed attributes and keeps the rest, its id and user_id among it. With
\* `moved` the storage writes the new version of the row at the end of the
\* table (a multi-version store), without it in place.
UpdateRow(rows, contact, body, moved) ==
    LET i == IndexOfId(rows, contact.id)
        set == Changed(contact, body)
        new == [f \in DOMAIN rows[i] |->
                   IF f \in set THEN body[f] ELSE rows[i][f]]
    IN  IF moved /\ new # rows[i] THEN Append(DeleteRow(rows, contact.id), new)
        ELSE [rows EXCEPT ![i] = new]

\* The UPDATE has a row to move: the storage keeps versions of a row, the row
\* is there, it changes and it is not the last of the table.
Moves(rows, contact, body, storage) ==
    /\ storage = "postgresql"
    /\ HasId(rows, contact.id)
    /\ IndexOfId(rows, contact.id) < Len(rows)
    /\ UpdateRow(rows, contact, body, FALSE) # rows

\* An error of the storage layer raised through the session.
SQLAlchemyError(name) ==
    [raised |-> TRUE, status_code |-> 0, detail |-> name, value |-> None]

\* The highest of a set of ids, 0 for none.
MaxOf(ids) == IF ids = {} THEN 0 ELSE CHOOSE m \in ids : \A i \in ids : i <= m

\* Variant: a storage that numbers the rows by a sequence, whichever it is.
NewId_from_sequence(rows, nid, storage) == nid

\* Contact.id, mapped_column(Integer, primary_key=True): the storage gives an
\* inserted row its id. SQLite gives the highest id of the table plus one, so
\* the id of a deleted last row is given again; PostgreSQL gives the next
\* value of the id's sequence, `nid`.
NewId(rows, nid, storage) ==
    IF storage = "sqlite" THEN MaxOf({rows[i].id : i \in 1..Len(rows)}) + 1
    ELSE nid

\* The sequence after an INSERT: its value is used up whether or not the
\* INSERT was refused. SQLite keeps no sequence.
NextVal(nid, storage) == IF storage = "sqlite" THEN nid ELSE nid + 1

\* What a call on the session leaves behind and hands back, and what was
\* called on the session on the way, in order.
Effect(rows, nid, out, calls) ==
    [rows |-> rows, next_id |-> nid, out |-> out, calls |-> calls]

\* The calls made before the effect's own.
After(calls, effect) == [effect EXCEPT !.calls = calls \o @]

\* await db.refresh(contact): the row that has the object's id now is read
\* into the object; when no row has it the session raises InvalidRequestError.
db_refresh(rows, id) ==
    IF HasId(rows, id) THEN Return(Refresh(rows, id))
    ELSE SQLAlchemyError("InvalidRequestError")

\* create_contact from Contact(**body.model_dump(), user=user) to the return
\* of `await db.commit()`: the INSERT, which hands back the id of the new row.
create_contact_commit(rows, nid, body, user, storage) ==
    LET id == NewId(rows, nid, storage)
    IN  IF EmailTaken(rows, body.email, id)
            THEN Effect(rows, NextVal(nid, storage),
                        SQLAlchemyError("IntegrityError"), <<"add", "commit">>)
        ELSE Effect(InsertRow(rows, Row(id, body, user.id)),
                    NextVal(nid, storage), Return([id |-> id]),
                    <<"add", "commit">>)

\* A call on the session, then the refresh of the object it wrote when the
\* call did not raise, with nothing in between.
ThenRefresh(done, id) ==
    IF done.out.raised THEN done
    ELSE [done EXCEPT !.out = db_refresh(done.rows, id),
                      !.calls = @ \o <<"refresh">>]

\* create_contact, as one call that no other request interleaves with
repo_create_contact(rows, nid, body, user, storage) ==
    IF create_contact_existing(rows, body, user) # None
        THEN Effect(rows, nid, HTTPException(400, "Contact is already exist"),
                    <<"execute">>)
    ELSE LET done == create_contact_commit(rows, nid, body, user, storage)
         IN  After(<<"execute">>,
                   ThenRefresh(done, NewId(rows, nid, storage)))

\* Variant: a delete that leaves its commit to a later call.
delete_contact_commit_deferred(rows, nid, contact) ==
    Effect(rows, nid, Return(contact), <<"delete">>)

\* delete_contact from `if contact:`: delete, commit, return the object the
\* select loaded. The DELETE names the row by its id; one that matches no row
\* any more raises nothing.
delete_contact_commit(rows, nid, contact) ==
    Effect(DeleteRow(rows, contact.id), nid, Return(contact),
           <<"delete", "commit">>)

\* delete_contact, as one call that no other request interleaves with
repo_delete_contact(rows, nid, contact_id, user) ==
    LET contact == delete_contact_select(rows, contact_id, user)
    IN  IF contact = None THEN Effect(rows, nid, Return(None), <<"execute">>)
        ELSE After(<<"execute">>, delete_contact_commit(rows, nid, contact))

\* update_contact from the setattr loop to the return of `await db.commit()`.
\* When no attribute changed there is no UPDATE. The UPDATE fails when no row
\* has the id any more (StaleDataError) and when it sets an email that
\* another row holds (IntegrityError).
update_contact_commit(rows, nid, contact, body, moved) ==
    IF Changed(contact, body) = {}
        THEN Effect(rows, nid, Return(contact), <<"commit">>)
    ELSE IF ~HasId(rows, contact.id)
        THEN Effect(rows, nid, SQLAlchemyError("StaleDataError"), <<"commit">>)
    ELSE IF "email" \in Changed(contact, body)
            /\ EmailTaken(rows, body.email, contact.id)
        THEN Effect(rows, nid, SQLAlchemyError("IntegrityError"), <<"commit">>)
    ELSE Effect(UpdateRow(rows, contact, body, moved), nid, Return(contact),
                <<"commit">>)

\* update_contact, as one call that no other request interleaves with
repo_update_contact(rows, nid, contact_id, body, user, moved) ==
    LET contact == update_contact_select(rows, contact_id, user)
    IN  IF contact = None THEN Effect(rows, nid, Return(None), <<"execute">>)
        ELSE After(<<"execute">>,
                   ThenRefresh(update_contact_commit(rows, nid, contact, body,
                                                     moved),
                               contact.id))

\* ------------------------------------------------------------------- state
VARIABLES
    contacts,   \* the contacts table: its rows, in the storage's scan order
    next_id,    \* the next value of the sequence of the contacts' ids
    storage,    \* the storage that settings.sqlalchemy_database_url names
    inflight,   \* bag of the requests in flight, each suspended at an await
    limiter,    \* the rate limiter's counters in the cache store, per key
    avatar,     \* users.avatar, per user id
    cloud,      \* the image hosting service: the file stored per public id
    response,   \* the response that the step sent, NoResponse when it sent none
    users,      \* the users table as the auth routes write it
    clock,      \* the time in seconds that issued tokens are stamped with
    exchange,   \* the request that took the step, as the middleware has it
    window,     \* per rate limiter key: the time left and the admissions
    resources,  \* per request in flight: its session, its cache client
    cache       \* the cache store's keys as the cache healthcheck wrote them

vars == <<contacts, next_id, storage, inflight, limiter, avatar, cloud,
          response, users, clock, exchange, window, resources, cache>>

\* What the routers of the API read and write.
api_state ==
    <<contacts, next_id, inflight, limiter, avatar, cloud, users, clock, cache>>

\* What the contacts and users routes leave alone, taken by themselves.
beyond_routes == <<users, clock, exchange, window, resources, storage, cache>>
\* What the auth routes leave alone, taken by themselves.
beyond_auth == <<exchange, window, resources, storage, cache>>

RateLimitedRoutes == {"get_contacts", "create_contact", "get_current_user"}

\* The hosts the requests come from: the two of the denylist, two others,
\* and a peer name that is no address.
ClientHosts ==
    {"192.168.1.1", "192.168.1.2", "127.0.0.1", "::ffff:192.168.1.1",
     "testclient"}

\* The host of the requests where all of them come from one client.
Client == "127.0.0.1"

\* request.scope["path"] of a rate-limited route
Path(route) ==
    CASE route = "get_contacts" -> "/api/contacts/"
      [] route = "create_contact" -> "/api/contacts/"
      [] route = "get_current_user" -> "/api/users/me"

\* The place of a rate-limited route in app.routes: after the four routes of
\* the documentation, the mount of /static and the five routes of the auth
\* router come the nine of the contacts router and the two of the users
\* router, in the order of their decorators.
RouteIndex(route) ==
    CASE route = "get_contacts" -> "10"
      [] route = "create_contact" -> "12"
      [] route = "get_current_user" -> "19"

\* The key under which the cache store keeps the counter of a route's limiter
\* for the requests of a client: the prefix of FastAPILimiter, the client's
\* address and the path (the default identifier), the index of the route and
\* the index of the limiter among the route's dependencies.
LimiterKey(host, route) ==
    "fastapi-limiter:" \o host \o ":" \o Path(route) \o ":"
        \o RouteIndex(route) \o ":0"

LimiterKeys ==
    {LimiterKey(h, r) : h \in ClientHosts, r \in RateLimitedRoutes}

\* The route whose limiter counts under `key`.
RouteOfKey(key) ==
    CHOOSE r \in RateLimitedRoutes :
        \E h \in ClientHosts : key = LimiterKey(h, r)

\* The other keys of the cache store that a request names.
CacheKeys == {"test"}

NoResponse == [request |-> [route |-> "", token |-> NoToken],
               status |-> 0, detail |-> "", result |-> None, calls |-> << >>]

\* No request has been taken yet.
NoExchange == [client |-> "", called |-> << >>, headers |-> {}]

\* No key of the rate limiter is set.
NoWindow == [ttl |-> 0, admitted |-> << >>]

\* No request is in flight.
NoResources == << >>

\* cloudinary public_id=f"ContactsApp/{current_user.username}"
PublicId(user) == "ContactsApp/" \o user.username

\* The storages the application is run on.
Storages == {"sqlite", "postgresql"}

Init ==
    /\ contacts = << >>
    /\ next_id = 1
    /\ storage \in Storages
    /\ inflight = EmptyBag
    /\ limiter = [k \in LimiterKeys |-> 0]
    /\ avatar = [u \in UserIds |-> None]
    /\ cloud = [p \in {PublicId(u) : u \in RegisteredUsers} |-> None]
    /\ response = NoResponse
    /\ users = << >>
    /\ clock = 0
    /\ exchange = NoExchange
    /\ window = [k \in LimiterKeys |-> NoWindow]
    /\ resources = NoResources
    /\ cache = [k \in CacheKeys \cup LimiterKeys |-> None]

\* ------------------------------------------------- requests in flight
\* A request between two of its awaits: where it resumes (pc), the object
\* its session holds (held), and what it has called on its session (calls).
Task(req, pc, held, calls) ==
    [request |-> req, pc |-> pc, held |-> held, calls |-> calls]

\* The event loop has room for one more request in flight.
Free == BagCardinality(inflight) < MaxInflight

\* No request is in flight.
Idle == inflight = EmptyBag

\* The request is suspended at its first await.
Suspend(p) == inflight' = inflight (+) SetToBag({p})
\* The request p is resumed and suspended again, as q.
Resume(p, q) == inflight' = (inflight (-) SetToBag({p})) (+) SetToBag({q})
\* The request p is resumed and runs to its end.
Leave(p) == inflight' = inflight (-) SetToBag({p})

\* The request p is in flight, suspended at `pc` of `route`.
At(p, route, pc) ==
    /\ BagIn(p, inflight)
    /\ p.request.route = route
    /\ p.pc = pc

\* The creations in flight that will ask the storage for an id.
Creating ==
    BagCardinality([p \in {q \in BagToSet(inflight) :
                              /\ q.request.route = "create_contact"
                              /\ q.pc \in {"handler", "commit"}}
                    |-> inflight[p]])

\* The step sends no response.
Silent == response' = NoResponse

\* ----------------------------------------------------- route dependencies
\* Depends(RateLimiter(times=2, seconds=...)): the request is refused once
\* the counter of the client's key for the route has reached `times` in the
\* running window.
RateLimiter(host, route) == limiter[LimiterKey(host, route)] >= RateTimes

\* The counters after an admitted request.
RateCount(host, route) == [limiter EXCEPT ![LimiterKey(host, route)] = @ + 1]

\* Variant: contacts routes that take the first user for every request.
contacts_Depends_user_unchecked(token) == User1

\* user: User = Depends(auth_service.get_current_user), contacts routes
contacts_Depends_user(token) == get_current_user(token)

\* user: User = Depends(auth_service.get_current_user), users routes
users_Depends_user(token) == get_current_user(token)

\* Variant: an accessor that hands on whatever was raised.
get_db_hands_on(out) == out

\* get_db: an SQLAlchemyError raised while the request holds the session
\* leaves as HTTPException(500, "Database session creation failed").
get_db(out) ==
    IF out.raised /\ out.status_code = 0
        THEN HTTPException(500, "Database session creation failed")
    ELSE out

\* The response to the request, with what the request called on its session.
Respond(req, status, detail, result, calls) ==
    response' = [request |-> req, status |-> status, detail |-> detail,
                 result |-> result, calls |-> calls]

\* The response to a request that called nothing on a session.
Reply(req, status, detail, result) ==
    Respond(req, status, detail, result, << >>)

\* The response for what the repository handed back or raised after `calls`.
RespondWith(req, ok_status, out, calls) ==
    IF out.raised THEN Respond(req, out.status_code, out.detail, None, calls)
    ELSE Respond(req, ok_status, "", out.value, calls)

\* The response for what the handler handed back or raised.
ReplyWith(req, ok_status, out) ==
    IF out.raised THEN Reply(req, out.status_code, out.detail, None)
    ELSE Reply(req, ok_status, "", out.value)

\* The response of a handler that raises 404 when the repository returns None.
ReplyOr404(req, ok_status, out, detail, calls) ==
    IF ~out.raised /\ out.value = None THEN Respond(req, 404, detail, None, calls)
    ELSE RespondWith(req, ok_status, out, calls)

Reply401(req) == Reply(req, 401, "Unauthorized", None)
Reply422(req) == Reply(req, 422, "Unprocessable Entity", None)
Reply429(req) == Reply(req, 429, "Too Many Requests", None)

Store(effect) == contacts' = effect.rows /\ next_id' = effect.next_id

\* --------------------------------------------------- routes/contacts.py
\* Every `await` of a handler, of a dependency and of the repository is a
\* point where the event loop runs other requests. An action is the work of
\* one request from one await on the shared stores (the cache store, the
\* contacts table, the users table, the image hosting) to the next. The
\* resolution of the current user reads the users table, which no contacts
\* route writes, and `await db.delete(contact)` marks the object in the
\* session without reaching the storage: each is taken together with the
\* access to the contacts table that follows it.

\* dependencies=[Depends(RateLimiter(times=2, seconds=...))]: the limiter's
\* script on the cache store, before any other dependency of the route. It
\* refuses the request (429) or counts it; a counted request goes on to the
\* other dependencies and the handler. A counter that the cache healthcheck
\* had set to "0" holds a count from now on.
RateLimited(req) ==
    IF RateLimiter(req.client, req.route)
        THEN /\ Reply429(req)
             /\ UNCHANGED <<limiter, inflight>>
    ELSE /\ Free
         /\ limiter' = RateCount(req.client, req.route)
         /\ Suspend(Task(req, "handler", None, << >>))
         /\ Silent

\* GET /api/contacts/, the rate limiter
get_contacts_RateLimiter(host, token, limit, offset) ==
    /\ RateLimited([route |-> "get_contacts", client |-> host, token |-> token,
                    limit |-> limit, offset |-> offset])
    /\ UNCHANGED <<contacts, next_id, avatar, cloud>>

\* GET /api/contacts/, from the resolution of the user on
route_get_contacts(p) ==
    LET req == p.request
        user == contacts_Depends_user(req.token)
    IN  /\ At(p, "get_contacts", "handler")
        /\ Leave(p)
        /\ UNCHANGED <<contacts, next_id, limiter, avatar, cloud>>
        /\ IF user = Unauthorized THEN Reply401(req)
           ELSE IF ~(req.limit >= LimitMin /\ req.limit <= LimitMax
                     /\ req.offset >= OffsetMin)
               THEN Reply422(req)
           ELSE Respond(req, 200, "",
                        repo_get_contacts(contacts, req.limit, req.offset, user),
                        <<"execute">>)

\* GET /api/contacts/{contact_id}
route_get_contact(token, contact_id) ==
    LET req == [route |-> "get_contact", token |-> token,
                contact_id |-> contact_id]
        user == contacts_Depends_user(token)
    IN  /\ UNCHANGED <<contacts, next_id, inflight, limiter, avatar, cloud>>
        /\ IF user = Unauthorized THEN Reply401(req)
           ELSE ReplyOr404(req, 200,
                    Return(repo_get_contact(contacts, contact_id, user)),
                    "Contact not found", <<"execute">>)

\* POST /api/contacts/, the rate limiter. The table has an id left for every
\* creation in flight.
create_contact_RateLimiter(host, token, body) ==
    /\ RateLimiter(host, "create_contact")
           \/ NewId(contacts, next_id, storage) + Creating <= MaxId
    /\ RateLimited([route |-> "create_contact", client |-> host,
                    token |-> token, body |-> body])
    /\ UNCHANGED <<contacts, next_id, avatar, cloud>>

\* POST /api/contacts/, from the resolution of the user to the existence
\* check of create_contact
create_contact_at_execute(p) ==
    LET req == p.request
        user == contacts_Depends_user(req.token)
    IN  /\ At(p, "create_contact", "handler")
        /\ UNCHANGED <<contacts, next_id, limiter, avatar, cloud>>
        /\ IF user = Unauthorized THEN Leave(p) /\ Reply401(req)
           ELSE IF ~ContactSchema(req.body) THEN Leave(p) /\ Reply422(req)
           ELSE IF create_contact_existing(contacts, req.body, user) # None
               THEN /\ Leave(p)
                    /\ Respond(req, 400, "Contact is already exist", None,
                               <<"execute">>)
           ELSE /\ Resume(p, Task(req, "commit", None, <<"execute">>))
                /\ Silent

\* POST /api/contacts/, db.add(contact) and `await db.commit()`
create_contact_at_commit(p) ==
    LET req == p.request
        user == contacts_Depends_user(req.token)
        done == create_contact_commit(contacts, next_id, req.body, user,
                                      storage)
        calls == p.calls \o done.calls
    IN  /\ At(p, "create_contact", "commit")
        /\ Store(done)
        /\ UNCHANGED <<limiter, avatar, cloud>>
        /\ IF done.out.raised
               THEN Leave(p) /\ RespondWith(req, 201, get_db(done.out), calls)
           ELSE /\ Resume(p, Task(req, "refresh", done.out.value, calls))
                /\ Silent

\* POST /api/contacts/, `await db.refresh(contact)` and the return
create_contact_at_refresh(p) ==
    /\ At(p, "create_contact", "refresh")
    /\ Leave(p)
    /\ UNCHANGED <<contacts, next_id, limiter, avatar, cloud>>
    /\ RespondWith(p.request, 201, get_db(db_refresh(contacts, p.held.id)),
                   p.calls \o <<"refresh">>)

\* DELETE /api/contacts/{contact_id}, to the select of delete_contact
delete_contact_at_execute(token, contact_id) ==
    LET req == [route |-> "delete_contact", token |-> token,
                contact_id |-> contact_id]
        user == contacts_Depends_user(token)
        contact == delete_contact_select(contacts, contact_id, user)
    IN  /\ UNCHANGED <<contacts, next_id, limiter, avatar, cloud>>
        /\ IF user = Unauthorized THEN Reply401(req) /\ UNCHANGED inflight
           ELSE IF contact = None
               THEN /\ Respond(req, 404, "Contact is not found", None,
                               <<"execute">>)
                    /\ UNCHANGED inflight
           ELSE /\ Free
                /\ Suspend(Task(req, "commit", contact, <<"execute">>))
                /\ Silent

\* DELETE /api/contacts/{contact_id}, db.delete(contact), `await db.commit()`
\* and the return
delete_contact_at_commit(p) ==
    LET done == delete_contact_commit(contacts, next_id, p.held)
    IN  /\ At(p, "delete_contact", "commit")
        /\ Leave(p)
        /\ Store(done)
        /\ UNCHANGED <<limiter, avatar, cloud>>
        /\ RespondWith(p.request, 204, get_db(done.out), p.calls \o done.calls)

\* PUT /api/contacts/{contact_id}, to the select of update_contact
update_contact_at_execute(token, contact_id, body) ==
    LET req == [route |-> "update_contact", token |-> token,
                contact_id |-> contact_id, body |-> body]
        user == contacts_Depends_user(token)
        contact == update_contact_select(contacts, contact_id, user)
    IN  /\ UNCHANGED <<contacts, next_id, limiter, avatar, cloud>>
        /\ IF user = Unauthorized THEN Reply401(req) /\ UNCHANGED inflight
           ELSE IF ~ContactUpdateSchema(body)
               THEN Reply422(req) /\ UNCHANGED inflight
           ELSE IF contact = None
               THEN /\ Respond(req, 404, "Contact is not found", None,
                               <<"execute">>)
                    /\ UNCHANGED inflight
           ELSE /\ Free
                /\ Suspend(Task(req, "commit", contact, <<"execute">>))
                /\ Silent

\* PUT /api/contacts/{contact_id}, the setattr loop and `await db.commit()`
update_contact_at_commit(p, moved) ==
    LET req == p.request
        done == update_contact_commit(contacts, next_id, p.held, req.body,
                                      moved)
        calls == p.calls \o done.calls
    IN  /\ At(p, "update_contact", "commit")
        /\ moved => /\ Moves(contacts, p.held, req.body, storage)
                    /\ ~done.out.raised
        /\ Store(done)
        /\ UNCHANGED <<limiter, avatar, cloud>>
        /\ IF done.out.raised
               THEN Leave(p) /\ RespondWith(req, 200, get_db(done.out), calls)
           ELSE /\ Resume(p, Task(req, "refresh", p.held, calls))
                /\ Silent

\* PUT /api/contacts/{contact_id}, `await db.refresh(contact)` and the return
update_contact_at_refresh(p) ==
    /\ At(p, "update_contact", "refresh")
    /\ Leave(p)
    /\ UNCHANGED <<contacts, next_id, limiter, avatar, cloud>>
    /\ RespondWith(p.request, 200, get_db(db_refresh(contacts, p.held.id)),
                   p.calls \o <<"refresh">>)

\* GET /api/contacts/email/{contact_email}
route_get_contact_by_email(token, contact_email) ==
    LET req == [route |-> "get_contact_by_email", token |-> token,
                contact_email |-> contact_email]
        user == contacts_Depends_user(token)
    IN  /\ UNCHANGED <<contacts, next_id, inflight, limiter, avatar, cloud>>
        /\ IF user = Unauthorized THEN Reply401(req)
           ELSE ReplyOr404(req, 200,
                    repo_get_contact_by_email(contacts, contact_email, user),
                    "Contact not found", <<"execute">>)

\* GET /api/contacts/last_name/{contact_last_name}
route_get_contact_by_last_name(token, contact_last_name) ==
    LET req == [route |-> "get_contact_by_last_name", token |-> token,
                contact_last_name |-> contact_last_name]
        user == contacts_Depends_user(token)
    IN  /\ UNCHANGED <<contacts, next_id, inflight, limiter, avatar, cloud>>
        /\ IF user = Unauthorized THEN Reply401(req)
           ELSE RespondWith(req, 200,
                    repo_get_contact_by_last_name(contacts, contact_last_name,
                                                  user),
                    <<"execute">>)

\* GET /api/contacts/birthday/{contact_birthday}: the path parameter is a
\* str and reaches filter_by(birthday=...) as it is. A driver that sends
\* parameters as text lets the storage read the string as a date (`accepted`);
\* a driver that binds DATE parameters from date objects raises on it.
route_get_contact_by_birthday(token, contact_birthday, accepted) ==
    LET req == [route |-> "get_contact_by_birthday", token |-> token,
                contact_birthday |-> contact_birthday]
        user == contacts_Depends_user(token)
    IN  /\ UNCHANGED <<contacts, next_id, inflight, limiter, avatar, cloud>>
        /\ IF user = Unauthorized THEN Reply401(req)
           ELSE IF ~accepted
               THEN RespondWith(req, 200,
                                get_db(SQLAlchemyError("StatementError")),
                                <<"execute">>)
           ELSE RespondWith(req, 200,
                    repo_get_contact_by_birthday(contacts,
                        DateOfString(contact_birthday), user),
                    <<"execute">>)

\* GET /api/contacts/birthdays/ ; `now` is what datetime.now() returns.
route_get_birthdays(token, now) ==
    LET req == [route |-> "get_birthdays", token |-> token, now |-> now]
        user == contacts_Depends_user(token)
    IN  /\ UNCHANGED <<contacts, next_id, inflight, limiter, avatar, cloud>>
        /\ IF user = Unauthorized THEN Reply401(req)
           ELSE Respond(req, 200, "", repo_get_birthdays(contacts, now, user),
                        <<"execute">>)

\* The window of a rate limiter key runs out: the cache store drops the key.
limiter_expire(key) ==
    /\ limiter[key] > 0
    /\ limiter' = [limiter EXCEPT ![key] = 0]
    /\ Silent
    /\ UNCHANGED <<contacts, next_id, inflight, avatar, cloud>>

\* ------------------------------------------------------- schemas/user.py
UserBody(username, email, password) ==
    [username |-> username, email |-> email, password |-> password]

\* UserSchema: username 3..50, EmailStr, password 6..10
UserSchema(body) ==
    /\ Len(body.username) >= UsernameMinLen
    /\ Len(body.username) <= UsernameMaxLen
    /\ IsEmail(body.email)
    /\ Len(body.password) >= PasswordMinLen
    /\ Len(body.password) <= PasswordMaxLen

\* UserResponseSchema: the fields a user is answered with.
UserResponseSchema(user) ==
    [id |-> user.id, username |-> user.username, email |-> user.email,
     avatar |-> user.avatar]

\* UserDb: the fields the avatar update answers with.
UserDb(user) ==
    [id |-> user.id, username |-> user.username, email |-> user.email,
     created_at |-> user.created_at, avatar |-> user.avatar]

\* Variant: the token type spelled with a capital.
TokenSchema_token_type_capitalised == "Bearer"

\* TokenSchema: token_type: str = "bearer"
TokenSchema_token_type == "bearer"

\* TokenSchema
TokenSchema(access_token, refresh_token) ==
    [access_token |-> access_token, refresh_token |-> refresh_token,
     token_type |-> TokenSchema_token_type]

\* ------------------------------------------------------ entity User
\* Variant: a users table whose rows are confirmed from the start.
User_confirmed_default_true == TRUE

\* User.confirmed: mapped_column(Boolean, default=False, nullable=True)
User_confirmed_default == FALSE

\* A row of the users table as the INSERT of a new user leaves it.
UserRow(id, body, avatar_url) ==
    [id |-> id, username |-> body.username, email |-> body.email,
     password |-> body.password, avatar |-> avatar_url,
     refresh_token |-> None, created_at |-> Date(2026, 12, 24),
     confirmed |-> User_confirmed_default]

\* ------------------------------------------------------ services/auth.py
\* The salted hash of a password, and its verification.
get_password_hash(password) == [hash_of |-> password]
verify_password(plain_password, hashed_password) ==
    hashed_password = get_password_hash(plain_password)

\* A signed token: its purpose tag, its subject and its issue time. `valid`
\* is the verdict of the signature and expiry check.
create_token(scope, email, iat) ==
    [present |-> TRUE, valid |-> TRUE, scope |-> scope, sub |-> email,
     iat |-> iat]
create_access_token(email, iat) == create_token("access_token", email, iat)
create_refresh_token(email, iat) == create_token("refresh_token", email, iat)
create_email_token(email, iat) == create_token("email_token", email, iat)

\* The subject of a token of the asked purpose, or Unauthorized.
decode_token(token, scope) ==
    IF token.present /\ token.valid /\ token.scope = scope THEN token.sub
    ELSE Unauthorized

\* --------------------------------------------------- repository/users.py
\* get_user_by_email: the row with the email, or None
get_user_by_email(table, email) ==
    scalar_one_or_none(SelectSeq(table, LAMBDA u : u.email = email))

IndexOfUser(table, email) ==
    CHOOSE i \in 1..Len(table) : table[i].email = email

\* create_user: the avatar is looked up by email; the row is added and
\* committed. A failed lookup aborts the creation with HTTPException 500.
create_user(table, body, gravatar) ==
    IF gravatar = None
        THEN [table |-> table, out |-> HTTPException(500, "Avatar lookup failed")]
    ELSE LET user == UserRow(Len(table) + 1, body, gravatar)
         IN  [table |-> Append(table, user), out |-> Return(user)]

\* update_token: user.refresh_token = token, commit
update_token(table, user, token) ==
    [table EXCEPT ![IndexOfUser(table, user.email)].refresh_token = token]

\* confirmed_email: user.confirmed = True, commit, refresh
confirmed_email(table, email) ==
    [table EXCEPT ![IndexOfUser(table, email)].confirmed = TRUE]

\* ------------------------------------------------------ routes/users.py
\* The users-table row of a registered user as the current-user resolution
\* loads it: every column of User, the avatar as last committed.
UserEntity(user) ==
    [id |-> user.id, username |-> user.username, email |-> user.email,
     password |-> get_password_hash("qwerty"), avatar |-> avatar[user.id],
     refresh_token |-> create_refresh_token(user.email, 0),
     created_at |-> Date(2026, 12, 24), confirmed |-> TRUE]

\* response_model=UserResponseSchema on the user the handler returns.
Profile(user) == UserResponseSchema(UserEntity(user))

\* Variant: a nested user that is the whole row.
ContactResponseSchema_user_unfiltered(row) ==
    [id |-> row.id, first_name |-> row.first_name,
     last_name |-> row.last_name, email |-> row.email,
     birthday |-> row.birthday, additional_data |-> row.additional_data,
     user |-> UserEntity(CHOOSE u \in RegisteredUsers : u.id = row.user_id)]

\* ContactResponseSchema: the contact's fields and user: UserResponseSchema,
\* read from the row's joined user.
ContactResponseSchema(row) ==
    [id |-> row.id, first_name |-> row.first_name,
     last_name |-> row.last_name, email |-> row.email,
     birthday |-> row.birthday, additional_data |-> row.additional_data,
     user |-> Profile(CHOOSE u \in RegisteredUsers : u.id = row.user_id)]

\* CloudinaryImage(public_id).build_url(width=250, height=250, crop="fill")
build_url(public_id) ==
    [public_id |-> public_id, width |-> 250, height |-> 250, crop |-> "fill"]

\* repositories_users.update_avatar(email, url, db): the user's avatar is
\* replaced and committed.
update_avatar(avatars, user, url) == [avatars EXCEPT ![user.id] = url]

\* GET /api/users/me, the rate limiter
get_current_user_RateLimiter(host, token) ==
    /\ RateLimited([route |-> "get_current_user", client |-> host,
                    token |-> token])
    /\ UNCHANGED <<contacts, next_id, avatar, cloud>>

\* GET /api/users/me, from the resolution of the user, which reads the
\* user's row, on
route_get_current_user(p) ==
    LET req == p.request
        user == users_Depends_user(req.token)
    IN  /\ At(p, "get_current_user", "handler")
        /\ Leave(p)
        /\ UNCHANGED <<contacts, next_id, limiter, avatar, cloud>>
        /\ IF user = Unauthorized THEN Reply401(req)
           ELSE Reply(req, 200, "", Profile(user))

\* PATCH /api/users/avatar, from the resolution of the user to the await of
\* update_avatar: cloudinary.uploader.upload, a call that does not yield to
\* the event loop, puts the file under the caller's public id, overwriting.
update_avatar_user_at_upload(token, file) ==
    LET req == [route |-> "update_avatar_user", token |-> token, file |-> file]
        user == users_Depends_user(token)
    IN  /\ UNCHANGED <<contacts, next_id, limiter, avatar>>
        /\ IF user = Unauthorized
               THEN Reply401(req) /\ UNCHANGED <<inflight, cloud>>
           ELSE /\ Free
                /\ cloud' = [cloud EXCEPT ![PublicId(user)] = [file |-> file]]
                /\ Suspend(Task(req, "update_avatar", None, << >>))
                /\ Silent

\* What `await repositories_users.update_avatar(...)` comes to: the commit
\* of the new avatar, or an error of the storage.
UpdateAvatarOutcomes == {Return(None), SQLAlchemyError("OperationalError")}

\* PATCH /api/users/avatar, `await repositories_users.update_avatar(
\* current_user.email, src_url, db)` and the return
update_avatar_user_at_update_avatar(p, out) ==
    LET req == p.request
        user == users_Depends_user(req.token)
        src_url == build_url(PublicId(user))
    IN  /\ At(p, "update_avatar_user", "update_avatar")
        /\ Leave(p)
        /\ UNCHANGED <<contacts, next_id, limiter, cloud>>
        /\ IF out.raised
               THEN ReplyWith(req, 200, get_db(out)) /\ UNCHANGED avatar
           ELSE /\ avatar' = update_avatar(avatar, user, src_url)
                /\ Reply(req, 200, "",
                         UserDb([UserEntity(user) EXCEPT !.avatar = src_url]))

\* ---------------------------------------------------------- request inputs
\* limit and offset of a list request
Pages == {<<10, 0>>, <<1, 0>>, <<1, 1>>, <<0, -1>>}
ContactIds == 1..MaxId
SearchEmails == {EmailAnn, EmailBob}
SearchLastNames == {"Lee", "Roe"}

\* The requests in flight.
Tasks == BagToSet(inflight)

\* ------------------------------------------------------------ contacts API
\* The contacts routes under the requests of registered users who wait for
\* the answer to one request before they send the next: a request is taken
\* when none is in flight, and it runs from await to await to its response.
Next ==
    \/ /\ Idle
       /\ \E t \in GoodTokens, pg \in Pages :
              get_contacts_RateLimiter(Client, t, pg[1], pg[2])
       /\ UNCHANGED beyond_routes
    \/ \E p \in Tasks : route_get_contacts(p) /\ UNCHANGED beyond_routes
    \/ /\ Idle
       /\ \E t \in GoodTokens, id \in ContactIds : route_get_contact(t, id)
       /\ UNCHANGED beyond_routes
    \/ /\ Idle
       /\ \E t \in GoodTokens, b \in Bodies : create_contact_RateLimiter(Client, t, b)
       /\ UNCHANGED beyond_routes
    \/ \E p \in Tasks : create_contact_at_execute(p) /\ UNCHANGED beyond_routes
    \/ \E p \in Tasks : create_contact_at_commit(p) /\ UNCHANGED beyond_routes
    \/ \E p \in Tasks : create_contact_at_refresh(p) /\ UNCHANGED beyond_routes
    \/ /\ Idle
       /\ \E t \in GoodTokens, id \in ContactIds :
              delete_contact_at_execute(t, id)
       /\ UNCHANGED beyond_routes
    \/ \E p \in Tasks : delete_contact_at_commit(p) /\ UNCHANGED beyond_routes
    \/ /\ Idle
       /\ \E t \in GoodTokens, id \in ContactIds, b \in Bodies :
              update_contact_at_execute(t, id, b)
       /\ UNCHANGED beyond_routes
    \/ \E p \in Tasks, moved \in BOOLEAN :
           update_contact_at_commit(p, moved) /\ UNCHANGED beyond_routes
    \/ \E p \in Tasks : update_contact_at_refresh(p) /\ UNCHANGED beyond_routes
    \/ /\ Idle
       /\ \E t \in GoodTokens, e \in SearchEmails :
              route_get_contact_by_email(t, e)
       /\ UNCHANGED beyond_routes
    \/ /\ Idle
       /\ \E t \in GoodTokens, n \in SearchLastNames :
              route_get_contact_by_last_name(t, n)
       /\ UNCHANGED beyond_routes
    \/ /\ Idle
       /\ \E t \in GoodTokens, d \in DateStrings, accepted \in BOOLEAN :
              route_get_contact_by_birthday(t, d, accepted)
       /\ UNCHANGED beyond_routes
    \/ /\ Idle
       /\ \E t \in GoodTokens, now \in Nows : route_get_birthdays(t, now)
       /\ UNCHANGED beyond_routes
    \/ \E r \in RateLimitedRoutes :
           limiter_expire(LimiterKey(Client, r)) /\ UNCHANGED beyond_routes

Spec == Init /\ [][Next]_vars

\* ----------------------------------------------------- concurrent requests
\* Creations, updates, deletions and reads of one user's contacts by
\* requests that the event loop runs side by side: a request is taken
\* whenever there is room for it, and every request in flight takes its next
\* step at any time.
RaceToken == AccessToken(User1)
RaceBodies == {b \in Bodies : b.email = EmailAnn}

NextRace ==
    \/ \E b \in RaceBodies :
           create_contact_RateLimiter(Client, RaceToken, b) /\ UNCHANGED beyond_routes
    \/ \E p \in Tasks : create_contact_at_execute(p) /\ UNCHANGED beyond_routes
    \/ \E p \in Tasks : create_contact_at_commit(p) /\ UNCHANGED beyond_routes
    \/ \E p \in Tasks : create_contact_at_refresh(p) /\ UNCHANGED beyond_routes
    \/ \E id \in ContactIds :
           delete_contact_at_execute(RaceToken, id) /\ UNCHANGED beyond_routes
    \/ \E p \in Tasks : delete_contact_at_commit(p) /\ UNCHANGED beyond_routes
    \/ \E id \in ContactIds, b \in RaceBodies :
           update_contact_at_execute(RaceToken, id, b)
               /\ UNCHANGED beyond_routes
    \/ \E p \in Tasks, moved \in BOOLEAN :
           update_contact_at_commit(p, moved) /\ UNCHANGED beyond_routes
    \/ \E p \in Tasks : update_contact_at_refresh(p) /\ UNCHANGED beyond_routes
    \/ \E id \in ContactIds :
           route_get_contact(RaceToken, id) /\ UNCHANGED beyond_routes
    \/ limiter_expire(LimiterKey(Client, "create_contact"))
           /\ UNCHANGED beyond_routes

SpecRace == Init /\ [][NextRace]_vars

\* ------------------------------------------------- access to the routes
\* Every contacts route and every users route under the token of one
\* registered user and under every kind of bad token, on one body, one page
\* and one file per route, one request at a time.
AccessTokens == {AccessToken(User1)} \cup BadTokens

AccessBody == Body("Ann", "Lee", EmailAnn, Date(2027, 1, 3), "")
\* A body whose names are shorter than the creation schema allows.
ShortBody == Body("Al", "Ng", EmailBob, Date(2026, 12, 27), "")

NextAccess ==
    \/ /\ Idle
       /\ \E t \in AccessTokens : get_contacts_RateLimiter(Client, t, 10, 0)
       /\ UNCHANGED beyond_routes
    \/ \E p \in Tasks : route_get_contacts(p) /\ UNCHANGED beyond_routes
    \/ /\ Idle
       /\ \E t \in AccessTokens, id \in ContactIds : route_get_contact(t, id)
       /\ UNCHANGED beyond_routes
    \/ /\ Idle
       /\ \E t \in AccessTokens, b \in {AccessBody, ShortBody} :
              create_contact_RateLimiter(Client, t, b)
       /\ UNCHANGED beyond_routes
    \/ \E p \in Tasks : create_contact_at_execute(p) /\ UNCHANGED beyond_routes
    \/ \E p \in Tasks : create_contact_at_commit(p) /\ UNCHANGED beyond_routes
    \/ \E p \in Tasks : create_contact_at_refresh(p) /\ UNCHANGED beyond_routes
    \/ /\ Idle
       /\ \E t \in AccessTokens, id \in ContactIds :
              delete_contact_at_execute(t, id)
       /\ UNCHANGED beyond_routes
    \/ \E p \in Tasks : delete_contact_at_commit(p) /\ UNCHANGED beyond_routes
    \/ /\ Idle
       /\ \E t \in AccessTokens, id \in ContactIds :
              update_contact_at_execute(t, id, AccessBody)
       /\ UNCHANGED beyond_routes
    \/ \E p \in Tasks :
           update_contact_at_commit(p, FALSE) /\ UNCHANGED beyond_routes
    \/ \E p \in Tasks : update_contact_at_refresh(p) /\ UNCHANGED beyond_routes
    \/ /\ Idle
       /\ \E t \in AccessTokens : route_get_contact_by_email(t, EmailAnn)
       /\ UNCHANGED beyond_routes
    \/ /\ Idle
       /\ \E t \in AccessTokens : route_get_contact_by_last_name(t, "Lee")
       /\ UNCHANGED beyond_routes
    \/ /\ Idle
       /\ \E t \in AccessTokens, accepted \in BOOLEAN :
              route_get_contact_by_birthday(t, "2027-01-03", accepted)
       /\ UNCHANGED beyond_routes
    \/ /\ Idle
       /\ \E t \in AccessTokens : route_get_birthdays(t, Date(2026, 12, 27))
       /\ UNCHANGED beyond_routes
    \/ /\ Idle
       /\ \E t \in AccessTokens : get_current_user_RateLimiter(Client, t)
       /\ UNCHANGED beyond_routes
    \/ \E p \in Tasks : route_get_current_user(p) /\ UNCHANGED beyond_routes
    \/ /\ Idle
       /\ \E t \in AccessTokens : update_avatar_user_at_upload(t, "a.png")
       /\ UNCHANGED beyond_routes
    \/ \E p \in Tasks, out \in UpdateAvatarOutcomes :
           update_avatar_user_at_update_avatar(p, out)
               /\ UNCHANGED beyond_routes
    \/ \E r \in RateLimitedRoutes :
           limiter_expire(LimiterKey(Client, r)) /\ UNCHANGED beyond_routes

SpecAccess == Init /\ [][NextAccess]_vars

\* ------------------------------------------------------- create and update
\* The bodies sent to create and to update: those of Bodies, which the
\* creation schema accepts, and one with names of two characters.
ValidationBodies == Bodies \cup {ShortBody}

NextValidation ==
    \/ /\ Idle
       /\ \E t \in AccessTokens, b \in ValidationBodies :
              create_contact_RateLimiter(Client, t, b)
       /\ UNCHANGED beyond_routes
    \/ \E p \in Tasks : create_contact_at_execute(p) /\ UNCHANGED beyond_routes
    \/ \E p \in Tasks : create_contact_at_commit(p) /\ UNCHANGED beyond_routes
    \/ \E p \in Tasks : create_contact_at_refresh(p) /\ UNCHANGED beyond_routes
    \/ /\ Idle
       /\ \E t \in AccessTokens, id \in ContactIds, b \in ValidationBodies :
              update_contact_at_execute(t, id, b)
       /\ UNCHANGED beyond_routes
    \/ \E p \in Tasks :
           update_contact_at_commit(p, FALSE) /\ UNCHANGED beyond_routes
    \/ \E p \in Tasks : update_contact_at_refresh(p) /\ UNCHANGED beyond_routes
    \/ /\ Idle
       /\ \E t \in AccessTokens, id \in ContactIds :
              delete_contact_at_execute(t, id)
       /\ UNCHANGED beyond_routes
    \/ \E p \in Tasks : delete_contact_at_commit(p) /\ UNCHANGED beyond_routes
    \/ \E r \in RateLimitedRoutes :
           limiter_expire(LimiterKey(Client, r)) /\ UNCHANGED beyond_routes

SpecValidation == Init /\ [][NextValidation]_vars

\* ------------------------------------------------------- routes/auth.py
StoreUsers(table) == users' = table

auth_frame ==
    UNCHANGED <<contacts, next_id, inflight, limiter, avatar, cloud, clock>>

\* POST /api/auth/signup
route_signup(body, gravatar) ==
    LET req == [route |-> "signup", token |-> NoToken, body |-> body]
    IN  /\ auth_frame
        /\ IF ~UserSchema(body)
               THEN Reply422(req) /\ UNCHANGED users
           ELSE IF get_user_by_email(users, body.email) # None
               THEN /\ Reply(req, 409, "Account already exists", None)
                    /\ UNCHANGED users
           ELSE LET hashed == [body EXCEPT
                                  !.password = get_password_hash(body.password)]
                    done == create_user(users, hashed, gravatar)
                IN  /\ StoreUsers(done.table)
                    /\ IF done.out.raised THEN ReplyWith(req, 201, done.out)
                       ELSE Reply(req, 201, "",
                                  UserResponseSchema(done.out.value))

\* POST /api/auth/login, form fields username (the email) and password
route_login(username, password) ==
    LET req == [route |-> "login", token |-> NoToken, username |-> username,
                password |-> password]
        user == get_user_by_email(users, username)
    IN  /\ auth_frame
        /\ IF user = None
               THEN Reply401(req) /\ UNCHANGED users
           ELSE IF ~user.confirmed
               THEN Reply401(req) /\ UNCHANGED users
           ELSE IF ~verify_password(password, user.password)
               THEN Reply401(req) /\ UNCHANGED users
           ELSE LET access_token == create_access_token(user.email, clock)
                    refresh_token == create_refresh_token(user.email, clock)
                IN  /\ StoreUsers(update_token(users, user, refresh_token))
                    /\ Reply(req, 200, "",
                             TokenSchema(access_token, refresh_token))

\* GET /api/auth/refresh_token: the bearer token is compared with the one
\* stored on the user; a token that differs is answered 401 and the stored
\* one is dropped.
route_refresh_token(token) ==
    LET req == [route |-> "refresh_token", token |-> token]
        email == decode_token(token, "refresh_token")
        user == IF email = Unauthorized THEN None
                ELSE get_user_by_email(users, email)
    IN  /\ auth_frame
        /\ IF user = None
               THEN Reply401(req) /\ UNCHANGED users
           ELSE IF user.refresh_token # token
               THEN /\ StoreUsers(update_token(users, user, None))
                    /\ Reply401(req)
           ELSE LET access_token == create_access_token(user.email, clock)
                    refresh_token == create_refresh_token(user.email, clock)
                IN  /\ StoreUsers(update_token(users, user, refresh_token))
                    /\ Reply(req, 200, "",
                             TokenSchema(access_token, refresh_token))

\* GET /api/auth/confirmed_email/{token}
route_confirmed_email(token) ==
    LET req == [route |-> "confirmed_email", token |-> token]
        email == decode_token(token, "email_token")
        user == IF email = Unauthorized THEN None
                ELSE get_user_by_email(users, email)
    IN  /\ auth_frame
        /\ IF user = None
               THEN /\ Reply(req, 400, "Verification error", None)
                    /\ UNCHANGED users
           ELSE IF user.confirmed
               THEN /\ Reply(req, 200, "",
                            [message |-> "Your email is already confirmed"])
                    /\ UNCHANGED users
           ELSE /\ StoreUsers(confirmed_email(users, email))
                /\ Reply(req, 200, "", [message |-> "Email confirmed"])

\* POST /api/auth/request_email: the answer is the same whether or not the
\* address is registered.
route_request_email(email) ==
    LET req == [route |-> "request_email", token |-> NoToken, email |-> email]
    IN  /\ auth_frame
        /\ UNCHANGED users
        /\ Reply(req, 200, "",
                 [message |-> "Check your email for confirmation."])

\* A second passes.
clock_tick ==
    /\ clock < MaxClock
    /\ clock' = clock + 1
    /\ Silent
    /\ UNCHANGED <<contacts, next_id, inflight, limiter, avatar, cloud, users,
                   beyond_auth>>

\* ----------------------------------------------------------- accounts API
EmailAnnMail == Email("ann", "mail.io")
EmailBobMail == Email("bob", "mail.io")
EmailGhost == Email("ghost", "mail.io")

SignupBodies ==
    { UserBody("ann", EmailAnnMail, "qwerty"),
      UserBody("bob", EmailBobMail, "secret12"),
      UserBody("ann", EmailAnnMail, "qwert") }

\* What the avatar lookup returns: the URL for the email, or None when it
\* fails.
Gravatars(email) == {[gravatar |-> email], None}

LoginForms ==
    { <<EmailAnnMail, "qwerty">>, <<EmailAnnMail, "secret12">>,
      <<EmailBobMail, "secret12">>, <<EmailGhost, "qwerty">> }

AccountEmails == {EmailAnnMail, EmailBobMail, EmailGhost}

\* The bearer tokens presented to refresh: what login and refresh issued, a
\* token of another purpose and one whose signature does not verify.
RefreshTokens ==
    {create_refresh_token(e, t) : e \in {EmailAnnMail}, t \in 0..MaxClock}
    \cup {create_access_token(EmailAnnMail, 0),
          [create_refresh_token(EmailAnnMail, 0) EXCEPT !.valid = FALSE]}

\* The tokens of the confirmation links.
EmailTokens ==
    {create_email_token(e, 0) : e \in AccountEmails}
    \cup {create_access_token(EmailAnnMail, 0)}

NextAuth ==
    \/ \E b \in SignupBodies : \E g \in Gravatars(b.email) :
           route_signup(b, g) /\ UNCHANGED beyond_auth
    \/ \E f \in LoginForms : route_login(f[1], f[2]) /\ UNCHANGED beyond_auth
    \/ \E t \in RefreshTokens :
           route_refresh_token(t) /\ UNCHANGED beyond_auth
    \/ \E t \in EmailTokens :
           route_confirmed_email(t) /\ UNCHANGED beyond_auth
    \/ \E e \in AccountEmails : route_request_email(e) /\ UNCHANGED beyond_auth
    \/ clock_tick

SpecAuth == Init /\ [][NextAuth]_vars

\* ------------------------------------------------------------- main.py
\* ipaddress.ip_address(text): the address a text denotes. A text that
\* denotes none raises ValueError.
IPv4Address(a, b, c, d) == [version |-> 4, packed |-> <<a, b, c, d>>]
IPv6Address(groups) == [version |-> 6, packed |-> groups]
ValueError == [value_error |-> TRUE]

ip_address(text) ==
    CASE text = "192.168.1.1" -> IPv4Address(192, 168, 1, 1)
      [] text = "192.168.1.2" -> IPv4Address(192, 168, 1, 2)
      [] text = "127.0.0.1" -> IPv4Address(127, 0, 0, 1)
      [] text = "::ffff:192.168.1.1" ->
             IPv6Address(<<0, 0, 0, 0, 0, 65535, 49320, 257>>)
      [] OTHER -> ValueError

\* Variant: a denylist that lost its second entry.
banned_ips_first_only == {ip_address("192.168.1.1")}

\* banned_ips
banned_ips == {ip_address("192.168.1.1"), ip_address("192.168.1.2")}

\* ban_ips up to its return or its call_next: what becomes of the request.
ban_ips(host) ==
    LET ip == ip_address(host)
    IN  IF ip = ValueError THEN "raised"
        ELSE IF ip \in banned_ips THEN "banned"
        ELSE "call_next"

\* add_process_time_header: the headers it leaves on the response that its
\* call_next returned. When call_next raised, the assignment is not reached
\* and the server's error response goes out as it is.
add_process_time_header(inner) ==
    IF inner = "raised" THEN {} ELSE {"X-Process-Time"}

\* The middleware entered by every request, outermost first.
Middleware == <<"add_process_time_header", "ban_ips">>

\* A request of client `host` for `route` under the middleware of the
\* application; `call_next` is the routing of the request to its endpoint,
\* up to the response or to the await at which the endpoint is suspended.
app(host, route, call_next) ==
    LET req == [route |-> route, token |-> NoToken]
        inner == ban_ips(host)
        sent == [client |-> host, called |-> Middleware,
                 headers |-> add_process_time_header(inner)]
    IN  IF inner = "raised"
            THEN /\ Reply(req, 500, "Internal Server Error", None)
                 /\ exchange' = sent
                 /\ UNCHANGED api_state
        ELSE IF inner = "banned"
            THEN /\ Reply(req, 403, "You are banned", None)
                 /\ exchange' = sent
                 /\ UNCHANGED api_state
        ELSE /\ call_next
             /\ exchange' = [sent EXCEPT
                    !.called = Append(Middleware, route),
                    !.headers = IF response' = NoResponse THEN {} ELSE @]

\* The endpoint of the request that the middleware handed on is resumed at
\* its await: when it comes to its response, call_next returns it and
\* add_process_time_header puts its header on it.
app_resumed(call_next) ==
    /\ call_next
    /\ exchange' = [exchange EXCEPT
           !.headers = IF response' = NoResponse THEN @
                       ELSE add_process_time_header("call_next")]

\* GET /: the landing page
read_root ==
    /\ Reply([route |-> "read_root", token |-> NoToken], 200, "",
             [template |-> "index.html", our |-> "Build by PythonWeb #22 Team"])
    /\ UNCHANGED api_state

\* GET /static/...: the file, or 404
StaticFiles(found) ==
    /\ IF found
           THEN Reply([route |-> "static", token |-> NoToken], 200, "",
                      [file |-> "static"])
       ELSE Reply([route |-> "static", token |-> NoToken], 404, "Not Found",
                  None)
    /\ UNCHANGED api_state

\* An exception that is no SQLAlchemyError and no HTTPException.
Exception(name) ==
    [raised |-> TRUE, status_code |-> -1, detail |-> name, value |-> None]

\* What db.execute(text("SELECT 1")) does: it returns a result with its rows,
\* or it raises.
SelectOne ==
    { Return([rows |-> <<[column_1 |-> 1]>>]), Return([rows |-> << >>]),
      SQLAlchemyError("OperationalError"),
      Exception("ConnectionRefusedError") }

\* healthchecker, the body of its try
healthchecker_try(executed) ==
    IF executed.raised THEN executed
    ELSE IF fetchone(executed.value.rows) = None
        THEN HTTPException(500, "Database is not configured correctly")
    ELSE Return([message |->
             "Connection to database is established. Welcome to fastapi"])

\* Variant: an except clause that reports the exception it caught.
healthchecker_except_str_e(tried) ==
    IF tried.raised THEN HTTPException(500, tried.detail) ELSE tried

\* healthchecker, its except Exception
healthchecker_except(tried) ==
    IF tried.raised THEN HTTPException(500, "Error connecting to database")
    ELSE tried

\* GET /api/healthchecker
healthchecker(executed) ==
    LET req == [route |-> "healthchecker", token |-> NoToken,
                executed |-> executed]
    IN  /\ ReplyWith(req, 200,
                     get_db(healthchecker_except(healthchecker_try(executed))))
        /\ UNCHANGED api_state

\* The cancellation of the request's task at one of its awaits: a
\* BaseException, which no `except Exception` takes.
CancelledError ==
    [raised |-> TRUE, status_code |-> -2, detail |-> "CancelledError",
     value |-> None]

\* get_redis_client: whatever is raised while the request holds the client
\* leaves as HTTPException(500, "Database is not configured correctly!").
get_redis_client(out) ==
    IF out.raised /\ out # CancelledError
        THEN HTTPException(500, "Database is not configured correctly!")
    ELSE out

\* The integer a counter's text stands for.
IntOf(value) == CASE value = "0" -> 0 [] value = "1" -> 1 [] value = "2" -> 2

\* Variant: a set that writes the one key "test", whatever key was asked.
redis_set_test_key_only(store, key, value) ==
    IF key \notin CacheKeys THEN store
    ELSE [store EXCEPT !.cache =
              [@ EXCEPT ![key] = [value |-> value, ex |-> HealthcheckExpiry]]]

\* await redis_client.set(key, value, ex=5) on the store of the limiter's
\* counters and the other keys: the key is given the value and the expiry,
\* whichever key it is. Under a limiter's key the value is the route's count
\* from then on; a count of 0 is told from a key that is not there by the
\* entry of the key.
redis_set(store, key, value) ==
    IF key \in LimiterKeys
        THEN [limiter |-> [store.limiter EXCEPT ![key] = IntOf(value)],
              cache |-> [store.cache EXCEPT ![key] =
                            IF IntOf(value) = 0
                                THEN [value |-> value, ex |-> HealthcheckExpiry]
                            ELSE None]]
    ELSE [store EXCEPT !.cache =
              [@ EXCEPT ![key] = [value |-> value, ex |-> HealthcheckExpiry]]]

\* await redis_client.get(key): what the store holds under the key now
redis_get(store, key) ==
    IF key \in LimiterKeys /\ store.limiter[key] > 0
        THEN Return([value |-> ToString(store.limiter[key])])
    ELSE IF store.cache[key] = None THEN Return(None)
    ELSE Return([value |-> store.cache[key].value])

\* The counters that the limiter's script has left, next to the entries: an
\* entry "0" under a limiter's key is there as long as the count is 0.
Recount ==
    cache' = [k \in DOMAIN cache |->
                 IF k \in LimiterKeys /\ limiter'[k] # 0 THEN None
                 ELSE cache[k]]

\* redis_healthchecker, the body of its try
redis_healthchecker_try(read) ==
    IF read.raised THEN read
    ELSE IF read.value = None
        THEN HTTPException(500, "Radis Database is not configured correctly")
    ELSE Return([message |-> "Connection to Radis is established."])

\* redis_healthchecker, its except Exception
redis_healthchecker_except(tried) ==
    IF tried.raised THEN HTTPException(500, "Error connecting to Radis")
    ELSE tried

\* What the handler of the cache healthcheck is answered with for what its
\* try came to.
redis_healthchecker_answer(req, tried) ==
    ReplyWith(req, 200, get_redis_client(redis_healthchecker_except(tried)))

\* GET /api/redis_healthchecker, to the return of `await redis_client.set`.
\* key and value are parameters of the handler with defaults and no
\* annotation: the query parameters ?key=...&value=... of the request. With
\* `wrote` the set reached the store; without it the set raised.
redis_healthchecker_at_set(key, value, wrote) ==
    LET req == [route |-> "redis_healthchecker", token |-> NoToken,
                key |-> key, value |-> value]
        store == redis_set([limiter |-> limiter, cache |-> cache], key, value)
    IN  /\ UNCHANGED <<contacts, next_id, avatar, cloud, users, clock>>
        /\ IF ~wrote
               THEN /\ redis_healthchecker_answer(req,
                           Exception("ConnectionError"))
                    /\ UNCHANGED <<limiter, cache, inflight>>
           ELSE /\ Free
                /\ limiter' = store.limiter
                /\ cache' = store.cache
                /\ Suspend(Task(req, "get", None, << >>))
                /\ Silent

\* GET /api/redis_healthchecker, `await redis_client.get(key)` and the
\* return. With `read` the get reached the store; without it the get raised.
redis_healthchecker_at_get(p, read) ==
    LET req == p.request
        got == IF read
                   THEN redis_get([limiter |-> limiter, cache |-> cache],
                                  req.key)
               ELSE Exception("ConnectionError")
    IN  /\ At(p, "redis_healthchecker", "get")
        /\ Leave(p)
        /\ redis_healthchecker_answer(req, redis_healthchecker_try(got))
        /\ UNCHANGED <<contacts, next_id, limiter, avatar, cloud, users, clock,
                       cache>>

\* The 5 seconds of a key written by the healthcheck run out.
cache_expire(key) ==
    /\ cache[key] # None
    /\ cache' = [cache EXCEPT ![key] = None]
    /\ Silent
    /\ UNCHANGED <<contacts, next_id, inflight, limiter, avatar, cloud,
                   users, clock, exchange, window, resources, storage>>

\* ------------------------------------------------------ application shell
ShellToken == AccessToken(User1)

\* Requests of every host for the landing page, the static files, the two
\* healthcheckers and routes of each router.
NextShell ==
    \/ /\ Idle
       /\ \E h \in ClientHosts : app(h, "read_root", read_root)
       /\ UNCHANGED <<window, resources, storage, cache>>
    \/ /\ Idle
       /\ \E h \in ClientHosts, found \in BOOLEAN :
              app(h, "static", StaticFiles(found))
       /\ UNCHANGED <<window, resources, storage, cache>>
    \/ /\ Idle
       /\ \E h \in ClientHosts, executed \in SelectOne :
              app(h, "healthchecker", healthchecker(executed))
       /\ UNCHANGED <<window, resources, storage, cache>>
    \/ /\ Idle
       /\ \E h \in ClientHosts, wrote \in BOOLEAN :
              app(h, "redis_healthchecker",
                  redis_healthchecker_at_set("test", "test", wrote))
       /\ UNCHANGED <<window, resources, storage>>
    \/ /\ \E p \in Tasks, read \in BOOLEAN :
              app_resumed(redis_healthchecker_at_get(p, read))
       /\ UNCHANGED <<window, resources, storage>>
    \/ /\ Idle
       /\ \E h \in ClientHosts :
              app(h, "create_contact",
                  create_contact_RateLimiter(h, ShellToken, AccessBody))
       /\ UNCHANGED <<users, clock, window, resources, storage, cache>>
    \/ /\ \E p \in Tasks : app_resumed(create_contact_at_execute(p))
       /\ UNCHANGED <<users, clock, window, resources, storage, cache>>
    \/ /\ \E p \in Tasks : app_resumed(create_contact_at_commit(p))
       /\ UNCHANGED <<users, clock, window, resources, storage, cache>>
    \/ /\ \E p \in Tasks : app_resumed(create_contact_at_refresh(p))
       /\ UNCHANGED <<users, clock, window, resources, storage, cache>>
    \/ /\ Idle
       /\ \E h \in ClientHosts, id \in ContactIds :
              app(h, "delete_contact", delete_contact_at_execute(ShellToken, id))
       /\ UNCHANGED <<users, clock, window, resources, storage, cache>>
    \/ /\ \E p \in Tasks : app_resumed(delete_contact_at_commit(p))
       /\ UNCHANGED <<users, clock, window, resources, storage, cache>>
    \/ /\ Idle
       /\ \E h \in ClientHosts :
              app(h, "update_avatar_user",
                  update_avatar_user_at_upload(ShellToken, "a.png"))
       /\ UNCHANGED <<users, clock, window, resources, storage, cache>>
    \/ /\ \E p \in Tasks, out \in UpdateAvatarOutcomes :
              app_resumed(update_avatar_user_at_update_avatar(p, out))
       /\ UNCHANGED <<users, clock, window, resources, storage, cache>>
    \/ /\ Idle
       /\ \E h \in ClientHosts : \E g \in Gravatars(EmailAnnMail) :
              app(h, "signup",
                  route_signup(UserBody("ann", EmailAnnMail, "qwerty"), g))
       /\ UNCHANGED <<window, resources, storage, cache>>
    \/ /\ \E k \in LimiterKeys : limiter_expire(k)
       /\ UNCHANGED beyond_routes

SpecShell == Init /\ [][NextShell]_vars

\* ------------------------------------------------------- cache store
\* The query strings of the cache healthcheck: none (the defaults), another
\* value, and the key of a limiter's counter with the text of a count.
CacheRoutes == {"get_contacts", "get_current_user"}

CacheRequests ==
    {<<"test", "test">>, <<"test", "0">>}
        \cup {<<LimiterKey(Client, r), v>> : r \in CacheRoutes, v \in {"0", "1"}}

CacheToken == AccessToken(User1)

\* The cache healthcheck next to the rate-limited routes, side by side.
NextCache ==
    \/ \E q \in CacheRequests, wrote \in BOOLEAN :
           /\ redis_healthchecker_at_set(q[1], q[2], wrote)
           /\ UNCHANGED <<exchange, window, resources, storage>>
    \/ \E p \in Tasks, read \in BOOLEAN :
           /\ redis_healthchecker_at_get(p, read)
           /\ UNCHANGED <<exchange, window, resources, storage>>
    \/ /\ get_contacts_RateLimiter(Client, CacheToken, 10, 0)
       /\ Recount
       /\ UNCHANGED <<users, clock, exchange, window, resources, storage>>
    \/ \E p \in Tasks : route_get_contacts(p) /\ UNCHANGED beyond_routes
    \/ /\ get_current_user_RateLimiter(Client, CacheToken)
       /\ Recount
       /\ UNCHANGED <<users, clock, exchange, window, resources, storage>>
    \/ \E p \in Tasks : route_get_current_user(p) /\ UNCHANGED beyond_routes
    \/ \E r \in CacheRoutes :
           limiter_expire(LimiterKey(Client, r)) /\ UNCHANGED beyond_routes
    \/ \E k \in DOMAIN cache : cache_expire(k)

SpecCache == Init /\ [][NextCache]_vars

\* ------------------------------------------------------- avatars
\* The files uploaded as avatars.
AvatarFiles == {"a.png", "b.png"}

\* Avatar updates and profile reads of the registered users, side by side.
NextAvatar ==
    \/ \E u \in RegisteredUsers, f \in AvatarFiles :
           update_avatar_user_at_upload(AccessToken(u), f)
               /\ UNCHANGED beyond_routes
    \/ update_avatar_user_at_upload(NoToken, "a.png") /\ UNCHANGED beyond_routes
    \/ \E p \in Tasks, out \in UpdateAvatarOutcomes :
           update_avatar_user_at_update_avatar(p, out)
               /\ UNCHANGED beyond_routes
    \/ \E u \in RegisteredUsers :
           get_current_user_RateLimiter(Client, AccessToken(u))
               /\ UNCHANGED beyond_routes
    \/ \E p \in Tasks : route_get_current_user(p) /\ UNCHANGED beyond_routes
    \/ limiter_expire(LimiterKey(Client, "get_current_user"))
           /\ UNCHANGED beyond_routes

SpecAvatar == Init /\ [][NextAvatar]_vars

\* ------------------------------------------------- rate limiter windows
\* RateLimiter(times, seconds): the seconds of the route's limiter.
RateSeconds(route) ==
    IF route = "get_current_user" THEN ProfileRateSeconds
    ELSE ContactsRateSeconds

\* What a request for `route` leaves in the cache store next to the counter.
\* The limiter sets the key with its expiry when it admits a request and finds
\* no key; it counts a further admitted request without touching the expiry,
\* and it leaves everything as it is when it refuses. Every admitted request
\* is noted with its age.
RateWindow(host, route) ==
    LET key == LimiterKey(host, route)
    IN  window' = [window EXCEPT ![key] =
            IF limiter'[key] = limiter[key] THEN @
            ELSE [ttl |-> IF limiter[key] = 0 THEN RateSeconds(route)
                          ELSE @.ttl,
                  admitted |-> Append(@.admitted, 0)]]

\* The ages after TickSeconds, without those that have left the window.
Aged(ages, seconds) ==
    SelectSeq([i \in DOMAIN ages |-> ages[i] + TickSeconds],
              LAMBDA a : a < seconds)

\* TickSeconds pass: the cache store drops the keys whose time has run out.
seconds_pass ==
    /\ \E k \in LimiterKeys :
           window[k].ttl > 0 \/ window[k].admitted # << >>
    /\ window' = [k \in LimiterKeys |->
           [ttl |-> IF window[k].ttl > TickSeconds
                        THEN window[k].ttl - TickSeconds ELSE 0,
            admitted |-> Aged(window[k].admitted,
                              RateSeconds(RouteOfKey(k)))]]
    /\ limiter' = [k \in LimiterKeys |->
           IF window[k].ttl > TickSeconds THEN limiter[k] ELSE 0]
    /\ Silent
    /\ UNCHANGED <<contacts, next_id, inflight, avatar, cloud, users, clock,
                   exchange, resources, storage, cache>>

RateToken == AccessToken(User1)

\* The three rate-limited routes under the requests of one client, with the
\* time that passes between them.
\* The three rate-limited routes under the requests of one client, one at a
\* time, with the time that passes between them.
NextRate ==
    \/ /\ Idle
       /\ get_contacts_RateLimiter(Client, RateToken, 10, 0)
       /\ RateWindow(Client, "get_contacts")
       /\ UNCHANGED <<users, clock, exchange, resources, storage, cache>>
    \/ \E p \in Tasks : route_get_contacts(p) /\ UNCHANGED beyond_routes
    \/ /\ Idle
       /\ create_contact_RateLimiter(Client, RateToken, AccessBody)
       /\ RateWindow(Client, "create_contact")
       /\ UNCHANGED <<users, clock, exchange, resources, storage, cache>>
    \/ \E p \in Tasks : create_contact_at_execute(p) /\ UNCHANGED beyond_routes
    \/ \E p \in Tasks : create_contact_at_commit(p) /\ UNCHANGED beyond_routes
    \/ \E p \in Tasks : create_contact_at_refresh(p) /\ UNCHANGED beyond_routes
    \/ /\ Idle
       /\ get_current_user_RateLimiter(Client, RateToken)
       /\ RateWindow(Client, "get_current_user")
       /\ UNCHANGED <<users, clock, exchange, resources, storage, cache>>
    \/ \E p \in Tasks : route_get_current_user(p) /\ UNCHANGED beyond_routes
    \/ seconds_pass

SpecRate == Init /\ [][NextRate]_vars

\* ------------------------------------------------------- database/db.py
\* local_session(): a new session object; `opened` sessions exist already.
local_session(opened) == [id |-> opened + 1, closed |-> FALSE]

\* aioredis.from_url(REDIS_URL): a new client object
from_url(opened) == [id |-> opened + 1, closed |-> FALSE]

\* get_db: leaving `async with local_session() as session` closes the session.
async_with_exit(session) == [session EXCEPT !.closed = TRUE]

\* Variant: a client that is closed only after a clean return.
redis_client_close_on_return_only(client, out) ==
    IF out.raised THEN client ELSE [client EXCEPT !.closed = TRUE]

\* get_redis_client: finally: await redis_client.close()
redis_client_close(client, out) == [client EXCEPT !.closed = TRUE]

\* The accessor each endpoint depends on.
Accessor(endpoint) ==
    IF endpoint = "redis_healthchecker" THEN "get_redis_client" ELSE "get_db"

\* What the handler of a request hands back or raises once it holds the
\* session. The healthchecker runs its query inside its try; a contacts
\* handler catches nothing. Every handler may be cancelled at an await.
ContactOutcomes ==
    { Return([rows |-> << >>]), HTTPException(404, "Contact not found"),
      SQLAlchemyError("IntegrityError"), SQLAlchemyError("OperationalError"),
      Exception("ConnectionRefusedError"), CancelledError }

HandlerInputs(endpoint) ==
    IF endpoint = "healthchecker" THEN SelectOne \cup {CancelledError}
    ELSE ContactOutcomes

Handler(endpoint, input) ==
    IF input = CancelledError THEN CancelledError
    ELSE IF endpoint = "healthchecker"
        THEN healthchecker_except(healthchecker_try(input))
    ELSE IF endpoint = "redis_healthchecker"
        THEN redis_healthchecker_except(redis_healthchecker_try(input))
    ELSE input

\* What the client is sent for what left the accessor: an exception that
\* nothing took is answered by the server's own 500, a cancelled request not
\* at all.
ServerErrorMiddleware(out) ==
    IF out.raised /\ out.status_code < 0 /\ out # CancelledError
        THEN HTTPException(500, "Internal Server Error")
    ELSE IF out.raised /\ out.status_code = 0
        THEN HTTPException(500, "Internal Server Error")
    ELSE out

\* The sessions, and the clients, opened so far.
Opened(accessor) ==
    Cardinality({i \in DOMAIN resources : resources[i].accessor = accessor})

handler_frame ==
    UNCHANGED <<contacts, next_id, inflight, limiter, avatar, cloud, response,
                users, clock, exchange, window, storage>>

scope_frame == handler_frame /\ UNCHANGED cache

\* A request arrives and its dependency is solved: get_db enters its
\* `async with`, get_redis_client calls from_url; the handler starts.
request_enter(endpoint) ==
    LET accessor == Accessor(endpoint)
        held == IF accessor = "get_db" THEN local_session(Opened("get_db"))
                ELSE from_url(Opened("get_redis_client"))
    IN  /\ Len(resources) < MaxRequests
        /\ resources' = Append(resources,
               [endpoint |-> endpoint, accessor |-> accessor, pc |-> "handler",
                held |-> held, input |-> None, out |-> None, answer |-> None])
        /\ scope_frame

\* The handler of request i runs on its session up to its return or its
\* raise.
handler_leaves(i, input) ==
    /\ resources[i].pc = "handler"
    /\ resources[i].accessor = "get_db"
    /\ ~resources[i].held.closed
    /\ resources' = [resources EXCEPT
           ![i].pc = "exit", ![i].input = input,
           ![i].out = Handler(resources[i].endpoint, input)]
    /\ scope_frame

\* What `await redis_client.set(key, value, ex=5)` comes to: the write
\* reaches the store and the call returns, the call raises with nothing
\* written, or the request is cancelled at the await, before or after the
\* write.
SetOutcomes ==
    { [wrote |-> TRUE, yields |-> None],
      [wrote |-> FALSE, yields |-> Exception("ConnectionError")],
      [wrote |-> FALSE, yields |-> CancelledError],
      [wrote |-> TRUE, yields |-> CancelledError] }

\* redis_healthchecker of request i, to the return of `await
\* redis_client.set(key, value, ex=5)` with the defaults of key and value:
\* the store holds the value under the key when the write reached it, and the
\* handler goes on to its get unless the call raised.
redis_healthchecker_set(i, set) ==
    LET r == resources[i]
        store == redis_set([limiter |-> limiter, cache |-> cache],
                           "test", "test")
    IN  /\ r.pc = "handler"
        /\ r.endpoint = "redis_healthchecker"
        /\ ~r.held.closed
        /\ cache' = IF set.wrote THEN store.cache ELSE cache
        /\ resources' = IF set.yields = None
               THEN [resources EXCEPT ![i].pc = "get"]
               ELSE [resources EXCEPT
                        ![i].pc = "exit", ![i].input = set.yields,
                        ![i].out = Handler(r.endpoint, set.yields)]
        /\ handler_frame

\* What `await redis_client.get(key)` comes to on the store as it is now.
GetOutcomes(key) ==
    { redis_get([limiter |-> limiter, cache |-> cache], key),
      Exception("ConnectionError"), CancelledError }

\* redis_healthchecker of request i, `value = await redis_client.get(key)`
\* and what follows up to the return or the raise.
redis_healthchecker_get(i, input) ==
    /\ resources[i].pc = "get"
    /\ ~resources[i].held.closed
    /\ resources' = [resources EXCEPT
           ![i].pc = "exit", ![i].input = input,
           ![i].out = Handler(resources[i].endpoint, input)]
    /\ scope_frame

\* The accessor of request i is resumed at its yield with what the handler
\* left: it closes what it opened and translates what it catches.
accessor_exit(i) ==
    LET r == resources[i]
    IN  /\ r.pc = "exit"
        /\ resources' = [resources EXCEPT
               ![i].pc = "done",
               ![i].held = IF r.accessor = "get_db" THEN async_with_exit(r.held)
                           ELSE redis_client_close(r.held, r.out),
               ![i].answer = ServerErrorMiddleware(
                                 IF r.accessor = "get_db" THEN get_db(r.out)
                                 ELSE get_redis_client(r.out))]
        /\ scope_frame

ScopeEndpoints == {"get_contact", "healthchecker", "redis_healthchecker"}

\* The step of request i.
request_step(i) ==
    \/ \E input \in HandlerInputs(resources[i].endpoint) :
           handler_leaves(i, input)
    \/ \E set \in SetOutcomes : redis_healthchecker_set(i, set)
    \/ \E input \in GetOutcomes("test") : redis_healthchecker_get(i, input)
    \/ accessor_exit(i)

NextScope ==
    \/ \E e \in ScopeEndpoints : request_enter(e)
    \/ \E i \in DOMAIN resources :
           \E input \in HandlerInputs(resources[i].endpoint) :
               handler_leaves(i, input)
    \/ \E i \in DOMAIN resources, set \in SetOutcomes :
           redis_healthchecker_set(i, set)
    \/ \E i \in DOMAIN resources, input \in GetOutcomes("test") :
           redis_healthchecker_get(i, input)
    \/ \E i \in DOMAIN resources : accessor_exit(i)
    \/ cache_expire("test")

SpecScope == Init /\ [][NextScope]_vars

\* Every request is a task of the event loop, which runs each task that is
\* ready: a request that can take its step takes it.
SpecScopeFair ==
    /\ SpecScope
    /\ \A i \in 1..MaxRequests : WF_vars(i \in DOMAIN resources /\ request_step(i))

\* ------------------------------------------------------- response bodies
\* The contacts routes declared with response_model=list[ContactResponseSchema]
\* and with response_model=ContactResponseSchema.
ContactListRoutes ==
    {"get_contacts", "get_contact_by_last_name", "get_contact_by_birthday",
     "get_birthdays"}
ContactRoutes ==
    {"get_contact", "create_contact", "update_contact", "get_contact_by_email"}

\* The body sent for what the handler of `route` returned: the route's
\* response_model applied to it. A 204 is sent without a body; the users and
\* auth routes hand back what their response_model left.
response_model(route, result) ==
    IF route \in ContactListRoutes
        THEN [i \in DOMAIN result |-> ContactResponseSchema(result[i])]
    ELSE IF route \in ContactRoutes THEN ContactResponseSchema(result)
    ELSE IF route = "delete_contact" THEN None
    ELSE result

\* Every route that answers with a user, a contact or a token pair, for one
\* registered caller and one account.
ResponsesToken == AccessToken(User1)

NextResponses ==
    \/ /\ Idle
       /\ get_contacts_RateLimiter(Client, ResponsesToken, 10, 0)
       /\ UNCHANGED beyond_routes
    \/ \E p \in Tasks : route_get_contacts(p) /\ UNCHANGED beyond_routes
    \/ /\ Idle
       /\ \E id \in ContactIds : route_get_contact(ResponsesToken, id)
       /\ UNCHANGED beyond_routes
    \/ /\ Idle
       /\ create_contact_RateLimiter(Client, ResponsesToken, AccessBody)
       /\ UNCHANGED beyond_routes
    \/ \E p \in Tasks : create_contact_at_execute(p) /\ UNCHANGED beyond_routes
    \/ \E p \in Tasks : create_contact_at_commit(p) /\ UNCHANGED beyond_routes
    \/ \E p \in Tasks : create_contact_at_refresh(p) /\ UNCHANGED beyond_routes
    \/ /\ Idle
       /\ \E id \in ContactIds : delete_contact_at_execute(ResponsesToken, id)
       /\ UNCHANGED beyond_routes
    \/ \E p \in Tasks : delete_contact_at_commit(p) /\ UNCHANGED beyond_routes
    \/ /\ Idle
       /\ \E id \in ContactIds :
              update_contact_at_execute(ResponsesToken, id, AccessBody)
       /\ UNCHANGED beyond_routes
    \/ \E p \in Tasks :
           update_contact_at_commit(p, FALSE) /\ UNCHANGED beyond_routes
    \/ \E p \in Tasks : update_contact_at_refresh(p) /\ UNCHANGED beyond_routes
    \/ /\ Idle
       /\ route_get_contact_by_email(ResponsesToken, EmailAnn)
       /\ UNCHANGED beyond_routes
    \/ /\ Idle
       /\ route_get_contact_by_last_name(ResponsesToken, "Lee")
       /\ UNCHANGED beyond_routes
    \/ /\ Idle
       /\ route_get_contact_by_birthday(ResponsesToken, "2027-01-03", TRUE)
       /\ UNCHANGED beyond_routes
    \/ /\ Idle
       /\ route_get_birthdays(ResponsesToken, Date(2026, 12, 29))
       /\ UNCHANGED beyond_routes
    \/ /\ Idle
       /\ get_current_user_RateLimiter(Client, ResponsesToken)
       /\ UNCHANGED beyond_routes
    \/ \E p \in Tasks : route_get_current_user(p) /\ UNCHANGED beyond_routes
    \/ /\ Idle
       /\ update_avatar_user_at_upload(ResponsesToken, "a.png")
       /\ UNCHANGED beyond_routes
    \/ \E p \in Tasks, out \in UpdateAvatarOutcomes :
           update_avatar_user_at_update_avatar(p, out)
               /\ UNCHANGED beyond_routes
    \/ \E r \in RateLimitedRoutes :
           limiter_expire(LimiterKey(Client, r)) /\ UNCHANGED beyond_routes
    \/ /\ Idle
       /\ \E g \in Gravatars(EmailAnnMail) :
              route_signup(UserBody("ann", EmailAnnMail, "qwerty"), g)
       /\ UNCHANGED beyond_auth
    \/ Idle /\ route_login(EmailAnnMail, "qwerty") /\ UNCHANGED beyond_auth
    \/ /\ Idle
       /\ route_refresh_token(create_refresh_token(EmailAnnMail, 0))
       /\ UNCHANGED beyond_auth
    \/ /\ Idle
       /\ route_confirmed_email(create_email_token(EmailAnnMail, 0))
       /\ UNCHANGED beyond_auth
    \/ Idle /\ route_request_email(EmailAnnMail) /\ UNCHANGED beyond_auth

SpecResponses == Init /\ [][NextResponses]_vars

\* =============================================================== properties
\* The user a request comes from.
Caller(token) == get_current_user(token)

\* The rows of `rows` that belong to `user`, as a set.
Owned(rows, user) == {c \in Range(rows) : c.user_id = user.id}

OwnsId(rows, user, id) == \E c \in Owned(rows, user) : c.id = id

RowOfId(rows, id) == CHOOSE c \in Range(rows) : c.id = id

SameTriple(c, body) ==
    /\ c.first_name = body.first_name
    /\ c.last_name = body.last_name
    /\ c.email = body.email

\* The rows other than the one with `id` are the same rows in the same order.
OthersKept(before, after, id) ==
    LET Other(c) == c.id # id
    IN  SelectSeq(after, Other) = SelectSeq(before, Other)

Answered(status, detail) ==
    /\ response'.status = status
    /\ response'.detail = detail
    /\ response'.result = None

\* The request whose step this is: the one that is answered, or the one
\* that is suspended at its next await.
Taken ==
    LET suspended == BagToSet(inflight' (-) inflight)
    IN  IF response' # NoResponse THEN response'.request
        ELSE IF suspended # {} THEN (CHOOSE p \in suspended : TRUE).request
        ELSE NoResponse.request

\* The request is over: the step answers it and leaves nothing of it in
\* flight.
Over == response' # NoResponse /\ BagCardinality(inflight') <= BagCardinality(inflight)

\* The step is the first step of request `req` in its route.
Gets(req) ==
    /\ req.route = "get_contact"
    /\ route_get_contact(req.token, req.contact_id)
Creates(req) ==
    /\ req.route = "create_contact"
    /\ create_contact_RateLimiter(req.client, req.token, req.body)
Deletes(req) ==
    /\ req.route = "delete_contact"
    /\ delete_contact_at_execute(req.token, req.contact_id)
Updates(req) ==
    /\ req.route = "update_contact"
    /\ update_contact_at_execute(req.token, req.contact_id, req.body)
Lists(req) ==
    /\ req.route = "get_contacts"
    /\ get_contacts_RateLimiter(req.client, req.token, req.limit,
                                req.offset)
SearchesEmail(req) ==
    /\ req.route = "get_contact_by_email"
    /\ route_get_contact_by_email(req.token, req.contact_email)
SearchesLastName(req) ==
    /\ req.route = "get_contact_by_last_name"
    /\ route_get_contact_by_last_name(req.token, req.contact_last_name)
SearchesBirthday(req) ==
    /\ req.route = "get_contact_by_birthday"
    /\ \E accepted \in BOOLEAN :
           route_get_contact_by_birthday(req.token, req.contact_birthday,
                                         accepted)
AsksBirthdays(req) ==
    /\ req.route = "get_birthdays"
    /\ route_get_birthdays(req.token, req.now)
AsksProfile(req) ==
    /\ req.route = "get_current_user"
    /\ get_current_user_RateLimiter(req.client, req.token)
UploadsAvatar(req) ==
    /\ req.route = "update_avatar_user"
    /\ update_avatar_user_at_upload(req.token, req.file)

\* --------------------------------------------------------------------- C1
\* C1: a get, an update and a delete by a caller on the id of a contact that
\* another user owns are answered as they are for an id that no contact has -
\* 404 with the route's not-found detail and no row - and they end there:
\* the contacts table is as it was and nothing of the request stays in
\* flight that could write to it later.
C1_ForeignContactIsNotFound ==
    [][LET req == Taken
       IN  (/\ Gets(req) \/ Deletes(req)
                \/ (Updates(req) /\ ContactUpdateSchema(req.body))
            /\ Caller(req.token) \in RegisteredUsers
            /\ ~OwnsId(contacts, Caller(req.token), req.contact_id)) =>
               /\ Answered(404, IF req.route = "get_contact"
                                    THEN "Contact not found"
                                ELSE "Contact is not found")
               /\ contacts' = contacts
               /\ next_id' = next_id
               /\ inflight' = inflight]_vars

\* An update was answered 404 while a contact with that id exists and belongs
\* to another user.
C1_Witness ==
    /\ response.request.route = "update_contact"
    /\ response.status = 404
    /\ \E c \in Range(contacts) :
           /\ c.id = response.request.contact_id
           /\ c.user_id # Caller(response.request.token).id

\* --------------------------------------------------------------------- C2
\* C2: what a repository operation hands a caller - list, get, create with
\* its existence check, update, delete, the three searches, the birthdays -
\* is the same on the contacts table and on the table without the rows of
\* the other users.
C2_OutcomeIgnoresOtherUsers ==
    \A u \in RegisteredUsers :
        LET Mine(c) == c.user_id = u.id
            mine == SelectSeq(contacts, Mine)
        IN  /\ \A p \in Pages :
                   (p[1] >= LimitMin /\ p[2] >= OffsetMin) =>
                       repo_get_contacts(contacts, p[1], p[2], u)
                           = repo_get_contacts(mine, p[1], p[2], u)
            /\ \A id \in ContactIds :
                   /\ repo_get_contact(contacts, id, u)
                          = repo_get_contact(mine, id, u)
                   /\ repo_delete_contact(contacts, next_id, id, u).out
                          = repo_delete_contact(mine, next_id, id, u).out
                   /\ \A b \in Bodies :
                          repo_update_contact(contacts, next_id, id, b, u,
                                              FALSE).out
                              = repo_update_contact(mine, next_id, id, b, u,
                                                    FALSE).out
            /\ \A e \in SearchEmails :
                   repo_get_contact_by_email(contacts, e, u)
                       = repo_get_contact_by_email(mine, e, u)
            /\ \A n \in SearchLastNames :
                   repo_get_contact_by_last_name(contacts, n, u)
                       = repo_get_contact_by_last_name(mine, n, u)
            /\ \A d \in DateStrings :
                   repo_get_contact_by_birthday(contacts, DateOfString(d), u)
                       = repo_get_contact_by_birthday(mine, DateOfString(d), u)
            /\ \A now \in Nows :
                   repo_get_birthdays(contacts, now, u)
                       = repo_get_birthdays(mine, now, u)
            /\ \A b \in Bodies :
                   ContactSchema(b) =>
                       repo_create_contact(contacts, next_id, b, u,
                                           "postgresql").out
                           = repo_create_contact(mine, next_id, b, u,
                                                 "postgresql").out

\* --------------------------------------------------------------------- C3
\* The request p is a create of a registered caller with a body that the
\* schema accepts.
ValidCreate(p) ==
    /\ Caller(p.request.token) \in RegisteredUsers
    /\ ContactSchema(p.request.body)

\* C3: a create that the rate limiter admitted, with a valid body whose first
\* name, last name and email are those of a contact the caller owns when the
\* create checks for it, is answered 400 "Contact is already exist"; no row
\* is added, no row is touched, and the request ends there.
C3_DuplicateCreateIsRejected ==
    [][\A p \in Tasks :
          (/\ create_contact_at_execute(p)
           /\ ValidCreate(p)
           /\ \E c \in Owned(contacts, Caller(p.request.token)) :
                  SameTriple(c, p.request.body)) =>
              /\ Answered(400, "Contact is already exist")
              /\ response'.request = p.request
              /\ contacts' = contacts
              /\ next_id' = next_id
              /\ inflight' = inflight (-) SetToBag({p})]_vars

\* A create was answered 400 and the caller owns a contact with the triple
\* of its body.
C3_Witness ==
    /\ response.request.route = "create_contact"
    /\ response.status = 400
    /\ \E c \in Owned(contacts, Caller(response.request.token)) :
           SameTriple(c, response.request.body)

\* --------------------------------------------------------------------- C4
\* The create p is at its commit while a row with the triple of its body is
\* in the table: another create with that triple was committed after p had
\* passed the existence check.
SecondCreate(p) ==
    /\ create_contact_at_commit(p)
    /\ \E c \in Range(contacts) : SameTriple(c, p.request.body)

\* C4 as stated: nothing in storage stops the second of two creates that both
\* passed the existence check with the same triple - it inserts its row and
\* goes on to a 201.
C4_SecondCreateInserts ==
    [][\A p \in Tasks :
          SecondCreate(p) =>
              /\ Len(contacts') = Len(contacts) + 1
              /\ response'.status \notin {400, 500}]_vars

\* C4: two creates with the same triple can both pass the existence check,
\* but the unique email of the contacts table refuses the second commit: it
\* is answered 500, the table stays as it was, and no two rows ever hold the
\* same first name, last name and email.
C4_SecondCreateIsRefused ==
    [][/\ \A p \in Tasks :
              SecondCreate(p) =>
                  /\ Answered(500, "Database session creation failed")
                  /\ response'.request = p.request
                  /\ contacts' = contacts
                  /\ inflight' = inflight (-) SetToBag({p})
       /\ \A i, j \in 1..Len(contacts') :
              (i # j) =>
                  ~(/\ contacts'[i].first_name = contacts'[j].first_name
                    /\ contacts'[i].last_name = contacts'[j].last_name
                    /\ contacts'[i].email = contacts'[j].email)]_vars

\* A create that had passed the existence check was answered 500 at its
\* commit and the caller owns a contact with the triple of its body: the
\* other create of the pair was committed first.
C4_Witness ==
    /\ response.request.route = "create_contact"
    /\ response.status = 500
    /\ response.calls = <<"execute", "add", "commit">>
    /\ \E c \in Owned(contacts, Caller(response.request.token)) :
           SameTriple(c, response.request.body)

\* --------------------------------------------------------------------- C5
\* A delete of the contact with `id` has just been answered 204.
Deleted(id) ==
    /\ response.request.route = "delete_contact"
    /\ response.status = 204
    /\ response.request.contact_id = id

\* C5: once a delete of a contact has been answered with the row, no row has
\* its id again, so that a later get, update or delete for the id finds
\* nothing and is answered 404: the step that follows the answer, whichever
\* request it belongs to, leaves the table without a row of that id.
C5_DeletedIdStaysAbsent ==
    [][\A id \in ContactIds : Deleted(id) => ~HasId(contacts', id)]_vars

\* --------------------------------------------------------------------- C6
\* An update, with a body the schema accepts, of a contact that is not found.
UpdatesMissing(req) ==
    /\ Updates(req)
    /\ Caller(req.token) \in RegisteredUsers
    /\ ContactUpdateSchema(req.body)
    /\ ~OwnsId(contacts, Caller(req.token), req.contact_id)

\* The update p is at its commit and the row it read is in the table as it
\* was read.
CommitsUpdate(p) ==
    /\ \E moved \in BOOLEAN : update_contact_at_commit(p, moved)
    /\ HasId(contacts, p.held.id)
    /\ RowOfId(contacts, p.held.id) = p.held

\* Another row holds the email of the body of the update p.
EmailHeld(p) ==
    \E c \in Range(contacts) :
        c.email = p.request.body.email /\ c.id # p.held.id

\* The five fields of the row that the update p read are those of its body,
\* its id and owner are the old ones, and every other row is as it was.
UpdateApplied(p) ==
    LET id == p.held.id
        b == p.request.body
    IN  /\ HasId(contacts', id)
        /\ RowOfId(contacts', id)
               = [id |-> id, first_name |-> b.first_name,
                  last_name |-> b.last_name, email |-> b.email,
                  birthday |-> b.birthday,
                  additional_data |-> b.additional_data,
                  user_id |-> p.held.user_id]
        /\ Len(contacts') = Len(contacts)
        /\ OthersKept(contacts, contacts', id)

\* C6 as stated: every update of an own contact with a valid body sets all
\* five fields, keeps id and owner and leaves the other contacts alone; an
\* update of a contact that is not found is answered 404 and changes nothing.
C6_UpdateSetsAllFields ==
    [][/\ \A p \in Tasks : CommitsUpdate(p) => UpdateApplied(p)
       /\ UpdatesMissing(Taken) =>
              (response'.status = 404 /\ contacts' = contacts)]_vars

\* C6: an update of an own contact with a valid body whose email no other
\* row holds sets all five fields at its commit, keeps id and owner, leaves
\* the other contacts alone and is answered 200 with the row it re-reads;
\* when another row holds the email the commit fails, the answer is 500 and
\* nothing changes; an update of a contact that is not found is answered 404
\* and changes nothing.
C6_UpdateSetsAllFieldsUnlessEmailTaken ==
    [][/\ \A p \in Tasks :
              /\ (CommitsUpdate(p) /\ ~EmailHeld(p)) =>
                     /\ UpdateApplied(p)
                     /\ response' = NoResponse
                     /\ \E q \in BagToSet(inflight') :
                            /\ q.request = p.request
                            /\ q.pc = "refresh"
              /\ (CommitsUpdate(p) /\ EmailHeld(p)) =>
                     /\ Answered(500, "Database session creation failed")
                     /\ response'.request = p.request
                     /\ contacts' = contacts
                     /\ inflight' = inflight (-) SetToBag({p})
              /\ (update_contact_at_refresh(p) /\ HasId(contacts, p.held.id))
                     => /\ response'.status = 200
                        /\ response'.request = p.request
                        /\ response'.result = RowOfId(contacts, p.held.id)
                        /\ contacts' = contacts
       /\ UpdatesMissing(Taken) =>
              /\ Answered(404, "Contact is not found")
              /\ contacts' = contacts
              /\ inflight' = inflight]_vars

\* An update was answered 200 with a row of the body's fields while the
\* table holds another row as well.
C6_Witness ==
    /\ response.request.route = "update_contact"
    /\ response.status = 200
    /\ Len(contacts) = 2
    /\ response.result \in Range(contacts)
    /\ response.result.additional_data = response.request.body.additional_data
    /\ response.result.additional_data = "vip"
    /\ \E c \in Range(contacts) : c.additional_data # "vip"

\* --------------------------------------------------------------------- C7
\* Days from the start of the calendar to a date.
DayNumber(d) ==
    LET y == d.year - 1
        before == <<0, 31, 59, 90, 120, 151, 181, 212, 243, 273, 304, 334>>
        leap == IF d.month > 2
                   /\ ((d.year % 4 = 0 /\ d.year % 100 # 0)
                       \/ d.year % 400 = 0)
                    THEN 1 ELSE 0
    IN  365 * y + (y \div 4) - (y \div 100) + (y \div 400)
            + before[d.month] + leap + d.day

\* C7: the upcoming-birthdays answer is 200 with exactly the caller's
\* contacts whose stored birth date, year included, is today or one of the
\* seven days after it - each once, none of another user - and an empty list
\* when there is none.
C7_BirthdaysOfTheNextSevenDays ==
    (/\ response.request.route = "get_birthdays"
     /\ Caller(response.request.token) \in RegisteredUsers) =>
        LET user == Caller(response.request.token)
            today == DayNumber(response.request.now)
            due == {c \in Owned(contacts, user) :
                       /\ DayNumber(c.birthday) >= today
                       /\ DayNumber(c.birthday) <= today + 7}
        IN  /\ response.status = 200
            /\ Range(response.result) = due
            /\ Len(response.result) = Cardinality(due)

\* The answer holds a contact whose birthday is five days from today and
\* leaves out a contact of the caller whose birthday is ten days from today.
C7_Witness ==
    /\ response.request.route = "get_birthdays"
    /\ response.status = 200
    /\ \E c \in Range(response.result) :
           DayNumber(c.birthday) = DayNumber(response.request.now) + 5
    /\ \E c \in Owned(contacts, Caller(response.request.token)) :
           /\ DayNumber(c.birthday) = DayNumber(response.request.now) + 10
           /\ c \notin Range(response.result)

\* --------------------------------------------------------------------- C8
\* The rows of a set in the order of their insertion (ascending id).
InInsertionOrder(set) ==
    CHOOSE s \in [1..Cardinality(set) -> set] :
        \A i, j \in 1..Cardinality(set) : i < j => s[i].id < s[j].id

\* C8: the answer to a list with limit L and offset O holds only contacts of
\* the caller, at most L of them, and they are the caller's contacts in
\* insertion order with the first O left out.
C8_ListIsAPageInInsertionOrder ==
    (response.request.route = "get_contacts" /\ response.status = 200) =>
        LET user == Caller(response.request.token)
            all == InInsertionOrder(Owned(contacts, user))
            L == response.request.limit
            O == response.request.offset
            left == IF Len(all) > O THEN Len(all) - O ELSE 0
            n == IF left < L THEN left ELSE L
        IN  /\ Range(response.result) \subseteq Owned(contacts, user)
            /\ Len(response.result) <= L
            /\ response.result = [i \in 1..n |-> all[O + i]]

\* --------------------------------------------------------------------- C9
\* str(date): 'YYYY-MM-DD'
isoformat(d) ==
    LET Two(n) == IF n < 10 THEN "0" \o ToString(n) ELSE ToString(n)
    IN  ToString(d.year) \o "-" \o Two(d.month) \o "-" \o Two(d.day)

\* The answer to a search: 200 with the matching contacts of the caller, or
\* 404 when there is none; the contacts table is as it was.
SearchAnswer(matching, one) ==
    /\ contacts' = contacts
    /\ next_id' = next_id
    /\ IF matching = {}
           THEN response'.status = 404 /\ response'.result = None
       ELSE /\ response'.status = 200
            /\ IF one THEN response'.result \in matching
               ELSE /\ Range(response'.result) = matching
                    /\ Len(response'.result) = Cardinality(matching)

\* C9: a search by email, by last name or by birth date is answered with the
\* caller's contacts that match - one contact for an email, all of them for a
\* last name or a birth date - or with 404 when none matches, and leaves the
\* contacts table as it was.
C9_SearchReturnsMatchesOr404 ==
    [][LET req == response'.request
           mine == Owned(contacts, Caller(req.token))
       IN  Caller(req.token) \in RegisteredUsers =>
               /\ SearchesEmail(req) =>
                      SearchAnswer({c \in mine : c.email = req.contact_email},
                                   TRUE)
               /\ SearchesLastName(req) =>
                      SearchAnswer({c \in mine :
                                       c.last_name = req.contact_last_name},
                                   FALSE)
               /\ SearchesBirthday(req) =>
                      SearchAnswer({c \in mine : isoformat(c.birthday)
                                                    = req.contact_birthday},
                                   FALSE)]_vars

\* -------------------------------------------------------------------- C10
\* What the handlers of the contacts and users routes read and write.
Stored == <<contacts, next_id, avatar, cloud>>

\* The routes of the contacts and users routers.
HandlerRoutes ==
    ContactRoutes \cup ContactListRoutes
        \cup {"delete_contact", "get_current_user", "update_avatar_user"}

\* The step is a step of a request to a contacts or users route whose token
\* is missing, does not verify, is not an access token or names no user.
BadToken(req) ==
    /\ req.route \in HandlerRoutes
    /\ Caller(req.token) = Unauthorized

\* C10 as stated: a request whose token is missing, does not verify, is not
\* an access token or names no user is answered 401 and changes none of what
\* the handlers store.
C10_BadTokenIs401 ==
    [][(BadToken(Taken) /\ response' # NoResponse) =>
           (response'.status = 401 /\ Stored' = Stored)]_vars

\* C10: no handler of a contacts or users route runs unless the token
\* resolves to a user - a request with a bad token changes none of what the
\* handlers store, gets no further than the resolution of the user, and is
\* answered 401, or 429 on a rate-limited route whose limit is used up when
\* it arrives, because the rate limiter runs before the resolution of the
\* user, and when it is admitted there it counts against the limit.
\* Whatever changes the stored state is a step of a request whose token
\* resolves to a user.
C10_BadTokenIs401Or429 ==
    [][LET req == Taken
       IN  /\ BadToken(req) =>
                  /\ Stored' = Stored
                  /\ \A q \in BagToSet(inflight') :
                         q.request = req => q.pc = "handler"
                  /\ IF response' = NoResponse
                         THEN /\ req.route \in RateLimitedRoutes
                              /\ limiter'[LimiterKey(req.client, req.route)]
                                     = limiter[LimiterKey(req.client,
                                                          req.route)] + 1
                     ELSE /\ response'.result = None
                          /\ response'.status \in {401, 429}
                          /\ (response'.status = 429) <=>
                                 (/\ req.route \in RateLimitedRoutes
                                  /\ RateLimiter(req.client, req.route)
                                  /\ inflight' = inflight)
           /\ (Stored' # Stored) => Caller(req.token) \in RegisteredUsers
      ]_vars

\* A delete with a bad token was answered 401 while the table holds a
\* contact with the id it names.
C10_Witness ==
    /\ response.request.route = "delete_contact"
    /\ Caller(response.request.token) = Unauthorized
    /\ response.status = 401
    /\ HasId(contacts, response.request.contact_id)

\* ------------------------------------------------------------ accounts
\* The user row with `email`.
UserOf(table, email) == get_user_by_email(table, email)

\* The step is the handling of request `req` by its auth route.
SignsUp(req) ==
    /\ req.route = "signup"
    /\ \E g \in Gravatars(req.body.email) : route_signup(req.body, g)
LogsIn(req) ==
    /\ req.route = "login"
    /\ route_login(req.username, req.password)
Refreshes(req) ==
    /\ req.route = "refresh_token"
    /\ route_refresh_token(req.token)
Confirms(req) ==
    /\ req.route = "confirmed_email"
    /\ route_confirmed_email(req.token)

\* C11: a user created by signup has confirmed = false; a login for a user
\* whose confirmed flag is false is answered 401 and changes nothing, even
\* when the password verifies; the confirmed flag of a user turns true only
\* in a step of the email confirmation of that user, and a login is answered
\* 200 only for a user whose flag is true. So a successful login of a user
\* is preceded by an email confirmation of that user.
C11_LoginNeedsConfirmation ==
    [][LET req == response'.request
       IN  /\ (SignsUp(req) /\ response'.status = 201) =>
                  UserOf(users', req.body.email).confirmed = FALSE
           /\ (/\ LogsIn(req)
               /\ UserOf(users, req.username) # None
               /\ ~UserOf(users, req.username).confirmed) =>
                  Answered(401, "Unauthorized") /\ users' = users
           /\ (LogsIn(req) /\ response'.status = 200) =>
                  UserOf(users, req.username).confirmed
           /\ \A i \in 1..Len(users') :
                  (/\ users'[i].confirmed
                   /\ (i > Len(users) \/ ~users[i].confirmed)) =>
                      /\ Confirms(req)
                      /\ decode_token(req.token, "email_token")
                             = users'[i].email]_vars

\* A login with the right password was answered 401 for a user who had not
\* confirmed the email.
C11_Witness ==
    /\ response.request.route = "login"
    /\ response.status = 401
    /\ UserOf(users, response.request.username) # None
    /\ ~UserOf(users, response.request.username).confirmed
    /\ verify_password(response.request.password,
                       UserOf(users, response.request.username).password)

\* The refresh tokens stored in the rows that `before` already had.
StoredTokens(table, before) ==
    [i \in 1..Len(before) |-> table[i].refresh_token]

\* C12: a login answered 200 returns an access token and a refresh token for
\* the user and token_type "bearer", and leaves the returned refresh token in
\* the user's row; a login answered otherwise writes nothing, and no step
\* other than a successful login or a token refresh changes a stored refresh
\* token. So after any sequence of logins the stored refresh token of a user
\* is the one returned by that user's latest successful login.
C12_LoginStoresRefreshToken ==
    [][LET req == response'.request
           tokens == response'.result
       IN  /\ (LogsIn(req) /\ response'.status = 200) =>
                  /\ tokens.access_token
                         = create_access_token(req.username, clock)
                  /\ tokens.refresh_token
                         = create_refresh_token(req.username, clock)
                  /\ tokens.token_type = "bearer"
                  /\ DOMAIN tokens
                         = {"access_token", "refresh_token", "token_type"}
                  /\ UserOf(users', req.username).refresh_token
                         = tokens.refresh_token
                  /\ \A i \in 1..Len(users) :
                         users[i].email # req.username => users'[i] = users[i]
           /\ (LogsIn(req) /\ response'.status # 200) => users' = users
           /\ (~LogsIn(req) /\ ~Refreshes(req)) =>
                  StoredTokens(users', users) = StoredTokens(users, users)]_vars

\* A user logged in again later and the row holds the token of that login.
C12_Witness ==
    /\ response.request.route = "login"
    /\ response.status = 200
    /\ response.result.refresh_token.iat > 0
    /\ UserOf(users, response.request.username).refresh_token
           = response.result.refresh_token

\* -------------------------------------------------------- what is sent
\* The body of the response sent last.
Sent == response_model(response.request.route, response.result)

Succeeded == response.status \in {200, 201}

SecretFields == {"password", "refresh_token"}
\* The fields of UserResponseSchema and of UserDb.
PublicFields == {"id", "username", "email", "avatar"}
PublicFieldsOfUserDb == PublicFields \cup {"created_at"}

\* A user as a response shows it: public fields only, the avatar among them.
PublicUser(user, fields) ==
    /\ DOMAIN user = fields
    /\ DOMAIN user \cap SecretFields = {}
    /\ "avatar" \in DOMAIN user

\* The users shown by the signup, profile, avatar and contact responses.
UsersAreShownPublic ==
    LET route == response.request.route
    IN  Succeeded =>
            /\ route \in {"signup", "get_current_user"} =>
                   PublicUser(Sent, PublicFields)
            /\ route = "update_avatar_user" =>
                   PublicUser(Sent, PublicFieldsOfUserDb)
            /\ route \in ContactRoutes => PublicUser(Sent.user, PublicFields)
            /\ route \in ContactListRoutes =>
                   \A i \in DOMAIN Sent : PublicUser(Sent[i].user, PublicFields)

\* The remaining bodies: a message, or the token pair of login and refresh.
TokenRoutes == {"login", "refresh_token"}
MessageRoutes == {"confirmed_email", "request_email"}

\* C13 as stated: no response at all contains a user's password or refresh
\* token; the users shown by signup, profile, avatar update and the contact
\* responses carry the public fields only, the avatar among them.
C13_NoResponseHoldsASecret ==
    /\ UsersAreShownPublic
    /\ (Succeeded /\ response.request.route \in TokenRoutes \cup MessageRoutes)
           => DOMAIN Sent \cap SecretFields = {}

\* C13, amended: the users shown by signup, profile, avatar update and the
\* contact responses carry the public fields only, the avatar among them, and
\* a message response names no secret; the one response that holds a refresh
\* token is the token pair of login and of token refresh, and it never holds
\* a password.
C13_OnlyTokenResponsesHoldARefreshToken ==
    /\ UsersAreShownPublic
    /\ (Succeeded /\ response.request.route \in MessageRoutes)
           => DOMAIN Sent \cap SecretFields = {}
    /\ (Succeeded /\ response.request.route \in TokenRoutes)
           => DOMAIN Sent = {"access_token", "refresh_token", "token_type"}

\* A contact was answered with its owner nested in it.
C13_Witness ==
    /\ Succeeded
    /\ response.request.route = "create_contact"
    /\ Sent.user.email = User1.email
    /\ "avatar" \in DOMAIN Sent.user

\* ---------------------------------------------------- application shell
\* The addresses of the denylist as the clients' sockets report them.
Denylist == {"192.168.1.1", "192.168.1.2"}

\* The step takes a request: no request is in flight, and the step is not
\* the running out of a limiter's window.
Requested == Idle /\ ~\E k \in LimiterKeys : limiter_expire(k)

\* The step is the work of the endpoint of `req`, as routed without any
\* middleware before it, up to its response or its first await.
ServedBy(req) ==
    \/ req.route = "read_root" /\ read_root
    \/ req.route = "static" /\ \E found \in BOOLEAN : StaticFiles(found)
    \/ req.route = "healthchecker" /\ healthchecker(req.executed)
    \/ /\ req.route = "redis_healthchecker"
       /\ \E wrote \in BOOLEAN :
              redis_healthchecker_at_set(req.key, req.value, wrote)
    \/ Lists(req) \/ Creates(req) \/ Deletes(req) \/ UploadsAvatar(req)
    \/ SignsUp(req)

\* C14: a request whose client address is 192.168.1.1 or 192.168.1.2 is
\* answered 403 "You are banned" by the middleware: nothing is called after
\* ban_ips, whatever the route (landing page, static files, healthcheckers,
\* API routes), nothing of the request is left in flight, and nothing of what
\* the routers store changes, the rate limiter's counters included. A request
\* from any other address is handed to its endpoint, whose work and answer
\* are what they are without the middleware.
C14_BannedClientIsRefusedBeforeRouting ==
    [][Requested =>
          IF exchange'.client \in Denylist
              THEN /\ Answered(403, "You are banned")
                   /\ exchange'.called = <<"add_process_time_header", "ban_ips">>
                   /\ UNCHANGED api_state
                   /\ inflight' = EmptyBag
          ELSE ip_address(exchange'.client) # ValueError =>
                   /\ exchange'.called
                          = <<"add_process_time_header", "ban_ips",
                              Taken.route>>
                   /\ ServedBy(Taken)]_vars

\* A banned client asked to create a contact and was answered 403.
C14_Witness ==
    /\ exchange.client \in Denylist
    /\ response.request.route = "create_contact"
    /\ response.status = 403
    /\ response.detail = "You are banned"
    /\ \A k \in LimiterKeys : limiter[k] = 0

\* C15: every response the application sends carries an X-Process-Time
\* header: the 403 of ban_ips, the 401, 404 and 429 of the routes, and the
\* 500 sent when an inner middleware or a handler raised.
C15_EveryResponseCarriesProcessTime ==
    response # NoResponse => "X-Process-Time" \in exchange.headers

\* ----------------------------------------------------------- rate limits
\* C16: within any 60 seconds (contact list, contact create) and within any
\* 10 seconds (current profile) at most 2 requests of the client are admitted
\* to the route.
C16_AtMostTwoInAnyWindow ==
    \A k \in LimiterKeys : Len(window[k].admitted) <= RateTimes

\* --------------------------------------------------------- healthchecks
\* The last request reached the endpoint `route`.
Reached(route) ==
    /\ response.request.route = route
    /\ exchange.called = Append(Middleware, route)

\* C17: the database healthcheck answers 500 with the fixed detail "Error
\* connecting to database" whenever SELECT 1 raises or returns no row, and
\* the detail is never the error that was raised; it answers 200 with the
\* success message when the query returns a row, and only then.
C17_HealthcheckReportsGenericFailure ==
    Reached("healthchecker") =>
        LET executed == response.request.executed
        IN  IF ~executed.raised /\ executed.value.rows # << >>
                THEN /\ response.status = 200
                     /\ response.result = [message |->
                            "Connection to database is established. Welcome to fastapi"]
            ELSE /\ response.status = 500
                 /\ response.detail = "Error connecting to database"
                 /\ response.result = None
                 /\ executed.raised => response.detail # executed.detail

\* The query raised an error of the storage and the healthcheck answered 500.
C17_Witness ==
    /\ Reached("healthchecker")
    /\ response.request.executed = SQLAlchemyError("OperationalError")
    /\ response.status = 500

\* ------------------------------------------------------- C18
Holds(i) == i \in DOMAIN resources /\ ~resources[i].held.closed

Released(i) == i \in DOMAIN resources /\ resources[i].held.closed

\* The session or client of a request is open exactly until the accessor is
\* left, and no two requests hold the same one.
ScopedToItsRequest ==
    \A i \in DOMAIN resources :
        /\ resources[i].held.closed <=> resources[i].pc = "done"
        /\ \A j \in DOMAIN resources :
               (i # j /\ resources[i].accessor = resources[j].accessor)
                   => resources[i].held.id # resources[j].held.id

\* C18: every database session and every cache client that an accessor
\* opened for a request is closed in the end, whether the handler returned,
\* raised an HTTP error or raised anything else; it is closed only once the
\* request has left the accessor, and it is held by no second request.
C18_OpenedIsReleasedOnEveryExit ==
    /\ []ScopedToItsRequest
    /\ \A i \in 1..MaxRequests : Holds(i) ~> Released(i)

\* A session released after a driver error that get_db does not take, next to
\* a client released after the HTTP error of the cache healthcheck.
C18_Witness ==
    /\ Released(1) /\ Released(2)
    /\ resources[1].accessor = "get_db"
    /\ resources[1].out = Exception("ConnectionRefusedError")
    /\ resources[2].accessor = "get_redis_client"
    /\ resources[2].out = HTTPException(500, "Error connecting to Radis")

\* ------------------------------------------------------- C19
\* The errors the database driver and the cache driver raise.
DriverErrors ==
    {e \in ContactOutcomes \cup SelectOne
                \cup ({s.yields : s \in SetOutcomes} \ {None}) :
         e.raised /\ e.status_code \in {-1, 0}}

Left(i) == i \in DOMAIN resources /\ resources[i].pc = "done"

SessionCreationFailed == HTTPException(500, "Database session creation failed")

NotConfiguredCorrectly ==
    HTTPException(500, "Database is not configured correctly!")

\* Whatever failed while the request used the cache client is answered with
\* the one fixed detail.
CacheFailureIsGeneric ==
    \A i \in DOMAIN resources :
        (Left(i) /\ resources[i].accessor = "get_redis_client"
             /\ resources[i].out.raised /\ resources[i].out # CancelledError)
            => resources[i].answer = NotConfiguredCorrectly

\* No answer shows the error of the driver.
NoRawDriverError ==
    \A i \in DOMAIN resources :
        Left(i) =>
            resources[i].answer.detail \notin {e.detail : e \in DriverErrors}

\* C19 as stated: every storage error that arises for a request's database
\* session is answered with the detail "Database session creation failed",
\* every failure while the cache client is used with a fixed generic one, and
\* no answer shows the raw driver error.
C19_EveryStorageErrorIsSessionCreationFailed ==
    /\ \A i \in DOMAIN resources :
           (Left(i) /\ resources[i].accessor = "get_db"
                /\ resources[i].input \in DriverErrors)
               => resources[i].answer = SessionCreationFailed
    /\ CacheFailureIsGeneric
    /\ NoRawDriverError

\* C19, amended: an SQLAlchemyError that the handler lets through to the
\* accessor is answered with "Database session creation failed"; a storage
\* error that the healthcheck catches itself is answered with the
\* healthcheck's own fixed detail, and a driver error that is no
\* SQLAlchemyError with the server's plain 500; every failure while the cache
\* client is used is answered with the fixed "Database is not configured
\* correctly!"; no answer shows the raw driver error.
C19_StorageErrorsAreTranslatedAtTheAccessor ==
    /\ \A i \in DOMAIN resources :
           (Left(i) /\ resources[i].accessor = "get_db"
                /\ resources[i].input \in DriverErrors)
               => resources[i].answer =
                      IF resources[i].endpoint = "healthchecker"
                          THEN HTTPException(500, "Error connecting to database")
                      ELSE IF resources[i].out \in
                                  {SQLAlchemyError("IntegrityError"),
                                   SQLAlchemyError("OperationalError")}
                          THEN SessionCreationFailed
                      ELSE HTTPException(500, "Internal Server Error")
    /\ CacheFailureIsGeneric
    /\ NoRawDriverError

\* A contacts request whose commit failed, answered by get_db, next to a
\* cache healthcheck whose read failed, answered by get_redis_client.
C19_Witness ==
    /\ Left(1) /\ Left(2)
    /\ resources[1].endpoint = "get_contact"
    /\ resources[1].out = SQLAlchemyError("IntegrityError")
    /\ resources[1].answer = SessionCreationFailed
    /\ resources[2].endpoint = "redis_healthchecker"
    /\ resources[2].input = Exception("ConnectionError")
    /\ resources[2].answer = NotConfiguredCorrectly

\* ------------------------------------------------------- C20
\* C20: after any sequence of accepted create and update requests every
\* stored contact has a first_name and a last_name of 3 to 50 characters and
\* additional_data of at most 250 characters.
C20_StoredContactsKeepTheLengthLimits ==
    \A c \in Range(contacts) :
        /\ Len(c.first_name) >= NameMinLen /\ Len(c.first_name) <= NameMaxLen
        /\ Len(c.last_name) >= NameMinLen /\ Len(c.last_name) <= NameMaxLen
        /\ Len(c.additional_data) <= AdditionalDataMaxLen

\* ------------------------------------------------------- C21
Mutating == {"create_contact", "update_contact", "delete_contact"}

\* The request answered was a mutating one that the repository served.
Mutated == response.request.route \in Mutating /\ response.status \in {200, 201, 204}

\* The request answered was a mutating one refused for a missing target or
\* as a duplicate.
Refused == response.request.route \in Mutating /\ response.status \in {400, 404}

Position(calls, name) == CHOOSE i \in 1..Len(calls) : calls[i] = name

\* The session of the request answered was asked for `name`.
Called(name) == \E i \in 1..Len(response.calls) : response.calls[i] = name

\* Exactly one commit.
CommitsOnce ==
    Cardinality({i \in 1..Len(response.calls) : response.calls[i] = "commit"}) = 1

\* C21 as stated: a create, an update and a delete that found its target
\* committed once before it returned and read the row again after that
\* commit; one that found no target or was a duplicate made no commit.
C21_EveryMutationCommitsThenRefreshes ==
    /\ Mutated =>
           /\ CommitsOnce
           /\ Called("refresh")
           /\ Position(response.calls, "commit")
                  < Position(response.calls, "refresh")
    /\ Refused => ~Called("commit")

\* C21, amended: a create, an update and a delete that found its target
\* committed once before it returned; the create and the update read the row
\* again after that commit, as their last call, and the delete, whose row is
\* gone, reads nothing again; one that found no target or was a duplicate
\* made no commit.
C21_MutationCommitsAndWritesRefresh ==
    /\ Mutated =>
           /\ CommitsOnce
           /\ IF response.request.route = "delete_contact"
                  THEN /\ ~Called("refresh")
                       /\ response.calls[Len(response.calls)] = "commit"
              ELSE /\ Called("refresh")
                   /\ Position(response.calls, "commit") + 1
                          = Len(response.calls)
                   /\ response.calls[Len(response.calls)] = "refresh"
    /\ Refused => ~Called("commit")

\* An update that found its row, committed and read it again.
C21_Witness ==
    /\ response.request.route = "update_contact"
    /\ response.status = 200
    /\ response.calls = <<"execute", "commit", "refresh">>

\* ------------------------------------------------------- C22
\* No two rows of the contacts table hold the same email, whoever owns them.
EmailsAreUnique ==
    \A i, j \in 1..Len(contacts) :
        i # j => contacts[i].email # contacts[j].email

\* The create p is at its commit with an email that a row of other names
\* holds.
CreatesWithHeldEmail(p) ==
    /\ create_contact_at_commit(p)
    /\ \E c \in Range(contacts) :
           c.email = p.request.body.email /\ ~SameTriple(c, p.request.body)

\* The update p is at its commit with an email that another row holds.
UpdatesWithHeldEmail(p) == CommitsUpdate(p) /\ EmailHeld(p)

\* The commit of p failed: the answer is the 500 of get_db and no row
\* changed.
FailedAtCommit(p) ==
    /\ response'.request = p.request
    /\ response'.status = 500
    /\ response'.detail = "Database session creation failed"
    /\ response'.calls[Len(response'.calls)] = "commit"
    /\ contacts' = contacts

\* C22: no two stored contacts share an email, whoever owns them: a create
\* whose email is that of an existing contact of other names, and an update
\* of a contact to the email of another one, passes the duplicate check,
\* fails at its commit, is answered 500 and leaves the table as it was.
C22_EmailIsUniqueAcrossOwners ==
    /\ []EmailsAreUnique
    /\ [][\A p \in Tasks :
             /\ CreatesWithHeldEmail(p) =>
                    /\ create_contact_existing(contacts, p.request.body,
                                               Caller(p.request.token)) = None
                    /\ FailedAtCommit(p)
             /\ UpdatesWithHeldEmail(p) => FailedAtCommit(p)]_vars

\* A create answered 500 at its commit for an email that a contact of
\* another user, under other names, holds.
C22_Witness ==
    /\ response.request.route = "create_contact"
    /\ response.status = 500
    /\ response.calls = <<"execute", "add", "commit">>
    /\ \E c \in Range(contacts) :
           /\ c.email = response.request.body.email
           /\ ~SameTriple(c, response.request.body)
           /\ c.user_id # Caller(response.request.token).id

\* ------------------------------------------------------- C23
\* C23: a request to the cache healthcheck writes the one key "test" with an
\* expiry of 5 seconds and reads it back, is answered 500 when that fails and
\* 200 otherwise, and none of its steps changes another key of the cache
\* store, the counters of the rate limiter among them.
C23_HealthcheckWritesOnlyItsTestKey ==
    [][Taken.route = "redis_healthchecker" =>
           /\ limiter' = limiter
           /\ \A k \in DOMAIN cache \ {"test"} : cache'[k] = cache[k]
           /\ response' # NoResponse =>
                  IF response'.status = 200
                      THEN /\ cache'["test"] # None
                           /\ cache'["test"].ex = HealthcheckExpiry
                  ELSE response'.status = 500]_vars

\* ------------------------------------------------------- C24
\* C24: an avatar update puts the file under the caller's public id, sets
\* the caller's avatar to the 250x250 URL of that id and answers the caller
\* with it, and none of its steps changes the hosted image or the avatar URL
\* of any other user.
C24_AvatarUpdateAffectsOnlyTheCaller ==
    [][LET req == Taken
       IN  \A u \in RegisteredUsers :
               (req.route = "update_avatar_user" /\ Caller(req.token) = u) =>
                   /\ UploadsAvatar(req) =>
                          cloud'[PublicId(u)] = [file |-> req.file]
                   /\ response'.status = 200 =>
                          /\ avatar'[u.id] = build_url(PublicId(u))
                          /\ avatar'[u.id].width = 250
                          /\ avatar'[u.id].height = 250
                          /\ response'.result.id = u.id
                          /\ response'.result.avatar = avatar'[u.id]
                   /\ \A v \in RegisteredUsers \ {u} :
                          /\ avatar'[v.id] = avatar[v.id]
                          /\ cloud'[PublicId(v)] = cloud[PublicId(v)]]_vars
====
